---- MODULE Spec2Model ----
(***************************************************************************)
(* A model of the spreadsheet-to-form mapping core of fill1040: the form   *)
(* parsers (F8949Parser, F1040Parser, their FormParser base class), the    *)
(* field mapping tables and the ParserRegistry that dispatches a sheet.    *)
(*                                                                         *)
(* Representation.                                                         *)
(*   - A JavaScript string is a sequence of one-character strings, so that *)
(*     toLowerCase, trim, includes, replace and parseFloat are computed    *)
(*     character by character.                                             *)
(*   - A JavaScript value (a cell of a sheet, a value of a field map) is a *)
(*     record [t, s, n]: t is the type tag, s the text of a string and n   *)
(*     the value of a number.  Numbers of the model are integers.          *)
(*   - A JavaScript object used as a map (a row, a field map, formsData)   *)
(*     is a sequence of <<key, value>> pairs in Object.keys order.         *)
(*     A mapping table (a FieldMapping, only ever read by key) is a        *)
(*     function from its keys to its values.                               *)
(*   - A Date is [valid, time]; time is the time value in units of 1000 ms *)
(*     (TLC integers are 32 bits wide and 365 days of milliseconds are     *)
(*     not), so every Date of the model falls on a whole second.           *)
(***************************************************************************)
EXTENDS Integers, Sequences, FiniteSets, TLC

VARIABLES
  pc,           \* "idle", or "returned" after a call
  call,         \* the operation called and its arguments
  result,       \* what that call returned
  app_formsData, \* TaxFormFillerApp.formsData
  currentYear,  \* TaxFormFillerApp.currentYear
  pending,      \* the processExcelFile calls that await parseFile
  history,      \* empty, or the one processExcelFile call that ran to its end
                \* last since the last clear, with the forms it replaced
  downloadDisabled, \* downloadBtn.disabled
  downloads,    \* the click handlers that await downloadFilledPdfs
  timers,       \* the re-enable timers set and not yet run
  clickError    \* what the last click on downloadBtn raised, or "none"

callVars == <<pc, call, result>>
appVars == <<app_formsData, currentYear, pending, history>>
uiVars == <<downloadDisabled, downloads, timers, clickError>>
vars == <<pc, call, result, app_formsData, currentYear, pending, history,
          downloadDisabled, downloads, timers, clickError>>

----------------------------------------------------------------------------
(* Strings *)

UpperChars == <<"A","B","C","D","E","F","G","H","I","J","K","L","M",
                "N","O","P","Q","R","S","T","U","V","W","X","Y","Z">>
LowerChars == <<"a","b","c","d","e","f","g","h","i","j","k","l","m",
                "n","o","p","q","r","s","t","u","v","w","x","y","z">>
DigitChars == <<"0","1","2","3","4","5","6","7","8","9">>

SetMax(S) == CHOOSE x \in S : \A y \in S : x >= y

\* A faulty maximum: the smaller of the two
MathMax_Smaller(a, b) == IF a <= b THEN a ELSE b

MathMax(a, b) == IF a >= b THEN a ELSE b

LowerChar(c) ==
  IF \E i \in 1..26 : UpperChars[i] = c
    THEN LowerChars[CHOOSE i \in 1..26 : UpperChars[i] = c]
    ELSE c

\* The sequence a function on 1..n is, element by element
AsSeq(f) == f \o <<>>

\* String.prototype.toLowerCase
toLowerCase(s) == AsSeq([i \in 1..Len(s) |-> LowerChar(s[i])])

\* String.prototype.trim (the only white space of the model is the blank)
trim(s) ==
  IF \A i \in 1..Len(s) : s[i] = " " THEN <<>>
  ELSE LET first == CHOOSE i \in 1..Len(s) :
                      s[i] # " " /\ \A j \in 1..(i - 1) : s[j] = " "
           last  == CHOOSE i \in 1..Len(s) :
                      s[i] # " " /\ \A j \in (i + 1)..Len(s) : s[j] = " "
       IN SubSeq(s, first, last)

\* String.prototype.includes
includes(s, sub) ==
  \E i \in 0..(Len(s) - Len(sub)) : SubSeq(s, i + 1, i + Len(sub)) = sub

IsDigit(c) == \E d \in 1..10 : DigitChars[d] = c
DigitVal(c) == (CHOOSE d \in 1..10 : DigitChars[d] = c) - 1

RECURSIVE NatToString(_)
NatToString(n) ==
  IF n < 10 THEN <<DigitChars[n + 1]>>
  ELSE NatToString(n \div 10) \o <<DigitChars[(n % 10) + 1]>>

\* Number-to-string conversion of an integer (String(n), template literals)
NumberToString(n) == IF n < 0 THEN <<"-">> \o NatToString(-n) ELSE NatToString(n)

\* String.prototype.padStart(2, '0') of the text of a natural number
padStart2(s) == IF Len(s) < 2 THEN <<"0">> \o s ELSE s

RECURSIVE DigitsValue(_)
DigitsValue(ds) ==
  IF ds = <<>> THEN 0
  ELSE 10 * DigitsValue(SubSeq(ds, 1, Len(ds) - 1)) + DigitVal(ds[Len(ds)])

\* The length of the longest prefix of s made of digits
DigitPrefixLen(s) ==
  CHOOSE k \in 0..Len(s) :
    /\ \A i \in 1..k : IsDigit(s[i])
    /\ k = Len(s) \/ ~IsDigit(s[k + 1])

\* parseFloat: leading blanks, an optional sign, then the longest run of
\* digits; NaN when there is none.  The texts of the model carry no
\* fraction and no exponent.
parseFloat(s) ==
  LET blanks == CHOOSE k \in 0..Len(s) :
                  /\ \A i \in 1..k : s[i] = " "
                  /\ k = Len(s) \/ s[k + 1] # " "
      t    == SubSeq(s, blanks + 1, Len(s))
      sgn  == Len(t) > 0 /\ (t[1] = "-" \/ t[1] = "+")
      body == IF sgn THEN Tail(t) ELSE t
      k    == DigitPrefixLen(body)
      mag  == DigitsValue(SubSeq(body, 1, k))
  IN IF k = 0 THEN [nan |-> TRUE, n |-> 0]
     ELSE [nan |-> FALSE, n |-> IF sgn /\ t[1] = "-" THEN -mag ELSE mag]

\* String.prototype.replace(/[$,]/g, '')
StripCurrency(s) == SelectSeq(s, LAMBDA c : c # "$" /\ c # ",")

----------------------------------------------------------------------------
(* Values *)

Str(s)    == [t |-> "string", s |-> s, n |-> 0]
Num(n)    == [t |-> "number", s |-> <<>>, n |-> n]
Null      == [t |-> "null", s |-> <<>>, n |-> 0]
Undefined == [t |-> "undefined", s |-> <<>>, n |-> 0]

\* ToBoolean, as used by `value || fallback` and `if (value)`
Truthy(v) ==
  CASE v.t = "string" -> v.s # <<>>
    [] v.t = "number" -> v.n # 0
    [] OTHER -> FALSE

\* String(value)
StringOf(v) ==
  CASE v.t = "string" -> v.s
    [] v.t = "number" -> NumberToString(v.n)
    [] v.t = "null" -> <<"n","u","l","l">>
    [] OTHER -> <<"u","n","d","e","f","i","n","e","d">>

----------------------------------------------------------------------------
(* Objects used as maps: sequences of <<key, value>> in Object.keys order *)

ObjKeys(o) == AsSeq([i \in 1..Len(o) |-> o[i][1]])
ObjHas(o, k) == \E i \in 1..Len(o) : o[i][1] = k
ObjIndex(o, k) == CHOOSE i \in 1..Len(o) : o[i][1] = k

\* o[k]: the value, or undefined when o has no such key
ObjGet(o, k) == IF ObjHas(o, k) THEN o[ObjIndex(o, k)][2] ELSE Undefined

\* o[k] = v: an existing key keeps its place, a new key goes last
ObjSet(o, k, v) ==
  IF ObjHas(o, k) THEN [o EXCEPT ![ObjIndex(o, k)] = <<k, v>>]
  ELSE Append(o, <<k, v>>)

\* { ...a, ...b } and Object.assign(a, b): the keys of a keep their places
\* and take b's values, the other keys of b follow in b's order
ObjAssign(a, b) ==
  AsSeq([i \in 1..Len(a) |->
           IF ObjHas(b, a[i][1]) THEN <<a[i][1], ObjGet(b, a[i][1])>> ELSE a[i]])
  \o SelectSeq(b, LAMBDA e : ~ObjHas(a, e[1]))

\* The object a sequence of assignments o[k] = v builds from {}: a key
\* stands where it was first assigned and holds what was assigned last
ObjFromAssignments(list) ==
  LET n == Len(list)
      LastValue(k) == list[SetMax({j \in 1..n : list[j][1] = k})][2]
      firsts == SelectSeq([i \in 1..n |-> <<i, list[i][1]>>],
                          LAMBDA e : \A j \in 1..(e[1] - 1) : list[j][1] # e[2])
  IN IF Cardinality({list[j][1] : j \in 1..n}) = n
       THEN list   \* no key is assigned twice
       ELSE AsSeq([i \in 1..Len(firsts) |-> <<firsts[i][2], LastValue(firsts[i][2])>>])

----------------------------------------------------------------------------
(* Dates *)

SecondsPerDay == 86400

InvalidDate == [valid |-> FALSE, time |-> 0]
DateAt(secs) == [valid |-> TRUE, time |-> secs]

\* Days since 1970-01-01 of a proleptic Gregorian calendar date
DaysFromCivil(y0, m, d) ==
  LET y   == IF m <= 2 THEN y0 - 1 ELSE y0
      era == y \div 400
      yoe == y - era * 400
      mp  == IF m > 2 THEN m - 3 ELSE m + 9
      doy == (153 * mp + 2) \div 5 + d - 1
      doe == yoe * 365 + yoe \div 4 - yoe \div 100 + doy
  IN era * 146097 + doe - 719468

\* The calendar date [y, m, d] of a day count since 1970-01-01: what
\* getUTCFullYear, getUTCMonth() + 1 and getUTCDate return
CivilFromDays(days) ==
  LET z   == days + 719468
      era == z \div 146097
      doe == z - era * 146097
      yoe == (doe - doe \div 1460 + doe \div 36524 - doe \div 146096) \div 365
      doy == doe - (365 * yoe + yoe \div 4 - yoe \div 100)
      mp  == (5 * doy + 2) \div 153
      d   == doy - (153 * mp + 2) \div 5 + 1
      m   == IF mp < 10 THEN mp + 3 ELSE mp - 9
  IN [y |-> yoe + era * 400 + (IF m <= 2 THEN 1 ELSE 0), m |-> m, d |-> d]

IsLeapYear(y) == (y % 4 = 0 /\ y % 100 # 0) \/ y % 400 = 0
DaysInMonth(y, m) ==
  CASE m \in {4, 6, 9, 11} -> 30
    [] m = 2 -> IF IsLeapYear(y) THEN 29 ELSE 28
    [] OTHER -> 31

\* new Date(text): a date-only ISO text YYYY-MM-DD is UTC midnight of that
\* day; every other text of the model is not a date (Invalid Date).
NewDateFromString(s) ==
  IF /\ Len(s) = 10
     /\ s[5] = "-" /\ s[8] = "-"
     /\ \A i \in {1, 2, 3, 4, 6, 7, 9, 10} : IsDigit(s[i])
  THEN LET y == DigitsValue(SubSeq(s, 1, 4))
           m == DigitsValue(SubSeq(s, 6, 7))
           d == DigitsValue(SubSeq(s, 9, 10))
       IN IF m \in 1..12 /\ d >= 1 /\ d <= DaysInMonth(y, m)
            THEN DateAt(DaysFromCivil(y, m, d) * SecondsPerDay)
            ELSE InvalidDate
  ELSE InvalidDate

----------------------------------------------------------------------------
(* FormParser: the helpers every parser inherits *)

\* createValidationResult(isValid, errors, warnings); an entry is
\* [field, message, severity]
createValidationResult(isValid, errors, warnings) ==
  [isValid  |-> isValid,
   errors   |-> AsSeq([i \in 1..Len(errors) |->
                   [field |-> errors[i].field, message |-> errors[i].message,
                    severity |-> "error"]]),
   warnings |-> AsSeq([i \in 1..Len(warnings) |->
                   [field |-> warnings[i].field, message |-> warnings[i].message,
                    severity |-> "warning"]])]

createParseResult(formIds, formsData, validation) ==
  [formIds |-> formIds, formsData |-> formsData, validation |-> validation]

isEmpty(value) ==
  value.t = "null" \/ value.t = "undefined" \/ (value.t = "string" /\ value.s = <<>>)

ExcelEpochOffset == 25569

\* excelDateToString(serial): MM/DD/YYYY of the UTC day
excelDateToString(serial) ==
  LET utc_days == serial - ExcelEpochOffset
      c == CivilFromDays(utc_days)
  IN padStart2(NatToString(c.m)) \o <<"/">> \o padStart2(NatToString(c.d))
       \o <<"/">> \o NumberToString(c.y)

\* formatDate(value): a number is a serial, anything else is String(value)
formatDate(value) ==
  IF value.t = "number" THEN excelDateToString(value.n) ELSE StringOf(value)

\* parseNumber(value, defaultValue)
parseNumber(value, defaultValue) ==
  IF value.t = "number" THEN value.n
  ELSE LET parsed == parseFloat(StripCurrency(StringOf(value)))
       IN IF parsed.nan THEN defaultValue ELSE parsed.n

----------------------------------------------------------------------------
(* Field mapping tables (config/mappings): logical key -> physical field *)

\* The table that the assignments mapping[k] = v numbered lo..hi of a list
\* build: a key holds what was assigned to it last
RECURSIVE MappingOf(_, _, _)
MappingOf(list, lo, hi) ==
  IF lo > hi THEN <<>>
  ELSE IF lo = hi THEN list[lo][1] :> list[lo][2]
  ELSE LET mid == (lo + hi) \div 2
       IN MappingOf(list, mid + 1, hi) @@ MappingOf(list, lo, mid)

\* mapping[key]: undefined when the table has no such key
MappingGet(mapping, key) ==
  IF key \in DOMAIN mapping THEN mapping[key] ELSE Undefined

\* The property key an expression evaluates to when used as obj[expr]:
\* a missing mapping entry is the key "undefined"
PropertyKey(v) == StringOf(v)

F8949RowsPerTable == 14
F8949ColsPerRow == 8

\* `${fieldNum < 10 ? '0' + fieldNum : fieldNum}`
PaddedNum(fieldNum) ==
  IF fieldNum < 10 THEN <<"0">> \o NumberToString(fieldNum) ELSE NumberToString(fieldNum)

\* The n-th (from 0) entry written by one of generateF8949Mapping's two
\* nested loops: row i = n div 8, column j = n mod 8
F8949CellEntry(prefix, page, part, f, n) ==
  LET i == n \div F8949ColsPerRow
      j == n % F8949ColsPerRow
      fieldNum == 8 * i + j + 3
  IN << prefix \o <<"_","r">> \o NumberToString(i) \o <<"_","c">> \o NumberToString(j),
        Str(<<"t","o","p","m","o","s","t","S","u","b","f","o","r","m","[","0","]",".","P","a","g","e">> \o page \o <<"[","0","]",".","T","a","b","l","e","_","L","i","n","e","1","_","P","a","r","t">> \o part
            \o <<"[","0","]",".","R","o","w">> \o NumberToString(i + 1) \o <<"[","0","]",".","f">> \o f \o <<"_">>
            \o PaddedNum(fieldNum) \o <<"[","0","]">>) >>

F8949CellEntries(prefix, page, part, f) ==
  AsSeq([n \in 1..(F8949RowsPerTable * F8949ColsPerRow) |->
           F8949CellEntry(prefix, page, part, f, n - 1)])

\* The assignments mapping[key] = value of generateF8949Mapping, in order
F8949Assignments ==
  F8949CellEntries(<<"s","t">>, <<"1">>, <<"1">>, <<"1">>)
  \o << <<<<"s","t","_","t","o","t","a","l","_","p","r","o","c","e","e","d">>, Str(<<"t","o","p","m","o","s","t","S","u","b","f","o","r","m","[","0","]",".","P","a","g","e","1","[","0","]",".","f","1","_","9","1","[","0","]">>)>>,
      <<<<"s","t","_","t","o","t","a","l","_","c","o","s","t">>,    Str(<<"t","o","p","m","o","s","t","S","u","b","f","o","r","m","[","0","]",".","P","a","g","e","1","[","0","]",".","f","1","_","9","2","[","0","]">>)>>,
      <<<<"s","t","_","t","o","t","a","l","_","a","d","j">>,     Str(<<"t","o","p","m","o","s","t","S","u","b","f","o","r","m","[","0","]",".","P","a","g","e","1","[","0","]",".","f","1","_","9","4","[","0","]">>)>>,
      <<<<"s","t","_","t","o","t","a","l","_","g","l">>,      Str(<<"t","o","p","m","o","s","t","S","u","b","f","o","r","m","[","0","]",".","P","a","g","e","1","[","0","]",".","f","1","_","9","5","[","0","]">>)>> >>
  \o F8949CellEntries(<<"l","t">>, <<"2">>, <<"2">>, <<"2">>)
  \o << <<<<"l","t","_","t","o","t","a","l","_","p","r","o","c","e","e","d">>, Str(<<"t","o","p","m","o","s","t","S","u","b","f","o","r","m","[","0","]",".","P","a","g","e","2","[","0","]",".","f","2","_","9","1","[","0","]">>)>>,
      <<<<"l","t","_","t","o","t","a","l","_","c","o","s","t">>,    Str(<<"t","o","p","m","o","s","t","S","u","b","f","o","r","m","[","0","]",".","P","a","g","e","2","[","0","]",".","f","2","_","9","2","[","0","]">>)>>,
      <<<<"l","t","_","t","o","t","a","l","_","a","d","j">>,     Str(<<"t","o","p","m","o","s","t","S","u","b","f","o","r","m","[","0","]",".","P","a","g","e","2","[","0","]",".","f","2","_","9","4","[","0","]">>)>>,
      <<<<"l","t","_","t","o","t","a","l","_","g","l">>,      Str(<<"t","o","p","m","o","s","t","S","u","b","f","o","r","m","[","0","]",".","P","a","g","e","2","[","0","]",".","f","2","_","9","5","[","0","]">>)>> >>

\* A faulty table: the long-term keys are given the fields of the
\* short-term keys
generateF8949Mapping_OnePage ==
  LET half == Len(F8949Assignments) \div 2
      list == AsSeq([n \in 1..Len(F8949Assignments) |->
                IF n > half
                  THEN <<F8949Assignments[n][1], F8949Assignments[n - half][2]>>
                  ELSE F8949Assignments[n]])
  IN MappingOf(list, 1, Len(list))

generateF8949Mapping == MappingOf(F8949Assignments, 1, Len(F8949Assignments))

f8949_2025 == generateF8949Mapping

BaselineYear == 2025

\* A faulty lookup: a year without a table of its own gets an empty table
getF8949Mapping_NoFallback(year) == IF year = BaselineYear THEN f8949_2025 ELSE <<>>

\* f8949Mappings[year] || f8949Mappings[2025]
getF8949Mapping(year) == IF year = BaselineYear THEN f8949_2025 ELSE f8949_2025

\* The entries of the literal f1040_2025, in order
F1040Entries ==
  <<
     <<<<"L","i","n","e"," ","1","a">>, Str(<<"t","o","p","m","o","s","t","S","u","b","f","o","r","m","[","0","]",".","P","a","g","e","1","[","0","]",".","f","1","_","4","7","[","0","]">>)>>,
     <<<<"L","i","n","e"," ","1","b">>, Str(<<"t","o","p","m","o","s","t","S","u","b","f","o","r","m","[","0","]",".","P","a","g","e","1","[","0","]",".","f","1","_","4","8","[","0","]">>)>>,
     <<<<"L","i","n","e"," ","1","c">>, Str(<<"t","o","p","m","o","s","t","S","u","b","f","o","r","m","[","0","]",".","P","a","g","e","1","[","0","]",".","f","1","_","4","9","[","0","]">>)>>,
     <<<<"L","i","n","e"," ","1","d">>, Str(<<"t","o","p","m","o","s","t","S","u","b","f","o","r","m","[","0","]",".","P","a","g","e","1","[","0","]",".","f","1","_","5","0","[","0","]">>)>>,
     <<<<"L","i","n","e"," ","1","e">>, Str(<<"t","o","p","m","o","s","t","S","u","b","f","o","r","m","[","0","]",".","P","a","g","e","1","[","0","]",".","f","1","_","5","1","[","0","]">>)>>,
     <<<<"L","i","n","e"," ","1","f">>, Str(<<"t","o","p","m","o","s","t","S","u","b","f","o","r","m","[","0","]",".","P","a","g","e","1","[","0","]",".","f","1","_","5","2","[","0","]">>)>>,
     <<<<"L","i","n","e"," ","1","g">>, Str(<<"t","o","p","m","o","s","t","S","u","b","f","o","r","m","[","0","]",".","P","a","g","e","1","[","0","]",".","f","1","_","5","3","[","0","]">>)>>,
     <<<<"L","i","n","e"," ","1","h","o">>, Str(<<"t","o","p","m","o","s","t","S","u","b","f","o","r","m","[","0","]",".","P","a","g","e","1","[","0","]",".","f","1","_","5","4","[","0","]">>)>>,
     <<<<"L","i","n","e"," ","1","h">>, Str(<<"t","o","p","m","o","s","t","S","u","b","f","o","r","m","[","0","]",".","P","a","g","e","1","[","0","]",".","f","1","_","5","5","[","0","]">>)>>,
     <<<<"L","i","n","e"," ","1","i">>, Str(<<"t","o","p","m","o","s","t","S","u","b","f","o","r","m","[","0","]",".","P","a","g","e","1","[","0","]",".","f","1","_","5","6","[","0","]">>)>>,
     <<<<"L","i","n","e"," ","1","z">>, Str(<<"t","o","p","m","o","s","t","S","u","b","f","o","r","m","[","0","]",".","P","a","g","e","1","[","0","]",".","f","1","_","5","7","[","0","]">>)>>,
     <<<<"L","i","n","e"," ","2","a">>, Str(<<"t","o","p","m","o","s","t","S","u","b","f","o","r","m","[","0","]",".","P","a","g","e","1","[","0","]",".","f","1","_","5","8","[","0","]">>)>>,
     <<<<"L","i","n","e"," ","2","b">>, Str(<<"t","o","p","m","o","s","t","S","u","b","f","o","r","m","[","0","]",".","P","a","g","e","1","[","0","]",".","f","1","_","5","9","[","0","]">>)>>,
     <<<<"L","i","n","e"," ","3","a">>, Str(<<"t","o","p","m","o","s","t","S","u","b","f","o","r","m","[","0","]",".","P","a","g","e","1","[","0","]",".","f","1","_","6","0","[","0","]">>)>>,
     <<<<"L","i","n","e"," ","3","b">>, Str(<<"t","o","p","m","o","s","t","S","u","b","f","o","r","m","[","0","]",".","P","a","g","e","1","[","0","]",".","f","1","_","6","1","[","0","]">>)>>,
     <<<<"L","i","n","e"," ","4","a">>, Str(<<"t","o","p","m","o","s","t","S","u","b","f","o","r","m","[","0","]",".","P","a","g","e","1","[","0","]",".","f","1","_","6","2","[","0","]">>)>>,
     <<<<"L","i","n","e"," ","4","b">>, Str(<<"t","o","p","m","o","s","t","S","u","b","f","o","r","m","[","0","]",".","P","a","g","e","1","[","0","]",".","f","1","_","6","3","[","0","]">>)>>,
     <<<<"L","i","n","e"," ","5","a">>, Str(<<"t","o","p","m","o","s","t","S","u","b","f","o","r","m","[","0","]",".","P","a","g","e","1","[","0","]",".","f","1","_","6","5","[","0","]">>)>>,
     <<<<"L","i","n","e"," ","5","b">>, Str(<<"t","o","p","m","o","s","t","S","u","b","f","o","r","m","[","0","]",".","P","a","g","e","1","[","0","]",".","f","1","_","6","6","[","0","]">>)>>,
     <<<<"L","i","n","e"," ","6","a">>, Str(<<"t","o","p","m","o","s","t","S","u","b","f","o","r","m","[","0","]",".","P","a","g","e","1","[","0","]",".","f","1","_","6","8","[","0","]">>)>>,
     <<<<"L","i","n","e"," ","6","b">>, Str(<<"t","o","p","m","o","s","t","S","u","b","f","o","r","m","[","0","]",".","P","a","g","e","1","[","0","]",".","f","1","_","6","9","[","0","]">>)>>,
     <<<<"L","i","n","e"," ","7","a">>, Str(<<"t","o","p","m","o","s","t","S","u","b","f","o","r","m","[","0","]",".","P","a","g","e","1","[","0","]",".","f","1","_","7","0","[","0","]">>)>>,
     <<<<"L","i","n","e"," ","7","b">>, Str(<<"t","o","p","m","o","s","t","S","u","b","f","o","r","m","[","0","]",".","P","a","g","e","1","[","0","]",".","f","1","_","7","1","[","0","]">>)>>,
     <<<<"L","i","n","e"," ","8">>, Str(<<"t","o","p","m","o","s","t","S","u","b","f","o","r","m","[","0","]",".","P","a","g","e","1","[","0","]",".","f","1","_","7","2","[","0","]">>)>>,
     <<<<"L","i","n","e"," ","9">>, Str(<<"t","o","p","m","o","s","t","S","u","b","f","o","r","m","[","0","]",".","P","a","g","e","1","[","0","]",".","f","1","_","7","3","[","0","]">>)>>,
     <<<<"L","i","n","e"," ","1","0">>, Str(<<"t","o","p","m","o","s","t","S","u","b","f","o","r","m","[","0","]",".","P","a","g","e","1","[","0","]",".","f","1","_","7","4","[","0","]">>)>>,
     <<<<"L","i","n","e"," ","1","1","a">>, Str(<<"t","o","p","m","o","s","t","S","u","b","f","o","r","m","[","0","]",".","P","a","g","e","1","[","0","]",".","f","1","_","7","5","[","0","]">>)>>,
     <<<<"L","i","n","e"," ","1","1","b">>, Str(<<"t","o","p","m","o","s","t","S","u","b","f","o","r","m","[","0","]",".","P","a","g","e","2","[","0","]",".","f","2","_","0","1","[","0","]">>)>>,
     <<<<"L","i","n","e"," ","1","2","e">>, Str(<<"t","o","p","m","o","s","t","S","u","b","f","o","r","m","[","0","]",".","P","a","g","e","2","[","0","]",".","f","2","_","0","2","[","0","]">>)>>,
     <<<<"L","i","n","e"," ","1","3","a">>, Str(<<"t","o","p","m","o","s","t","S","u","b","f","o","r","m","[","0","]",".","P","a","g","e","2","[","0","]",".","f","2","_","0","3","[","0","]">>)>>,
     <<<<"L","i","n","e"," ","1","3","b">>, Str(<<"t","o","p","m","o","s","t","S","u","b","f","o","r","m","[","0","]",".","P","a","g","e","2","[","0","]",".","f","2","_","0","4","[","0","]">>)>>,
     <<<<"L","i","n","e"," ","1","4">>, Str(<<"t","o","p","m","o","s","t","S","u","b","f","o","r","m","[","0","]",".","P","a","g","e","2","[","0","]",".","f","2","_","0","5","[","0","]">>)>>,
     <<<<"L","i","n","e"," ","1","5">>, Str(<<"t","o","p","m","o","s","t","S","u","b","f","o","r","m","[","0","]",".","P","a","g","e","2","[","0","]",".","f","2","_","0","6","[","0","]">>)>>,
     <<<<"L","i","n","e"," ","1","6">>, Str(<<"t","o","p","m","o","s","t","S","u","b","f","o","r","m","[","0","]",".","P","a","g","e","2","[","0","]",".","f","2","_","0","8","[","0","]">>)>>,
     <<<<"L","i","n","e"," ","1","7">>, Str(<<"t","o","p","m","o","s","t","S","u","b","f","o","r","m","[","0","]",".","P","a","g","e","2","[","0","]",".","f","2","_","0","9","[","0","]">>)>>,
     <<<<"L","i","n","e"," ","1","8">>, Str(<<"t","o","p","m","o","s","t","S","u","b","f","o","r","m","[","0","]",".","P","a","g","e","2","[","0","]",".","f","2","_","1","0","[","0","]">>)>>,
     <<<<"L","i","n","e"," ","1","9">>, Str(<<"t","o","p","m","o","s","t","S","u","b","f","o","r","m","[","0","]",".","P","a","g","e","2","[","0","]",".","f","2","_","1","1","[","0","]">>)>>,
     <<<<"L","i","n","e"," ","2","0">>, Str(<<"t","o","p","m","o","s","t","S","u","b","f","o","r","m","[","0","]",".","P","a","g","e","2","[","0","]",".","f","2","_","1","2","[","0","]">>)>>,
     <<<<"L","i","n","e"," ","2","1">>, Str(<<"t","o","p","m","o","s","t","S","u","b","f","o","r","m","[","0","]",".","P","a","g","e","2","[","0","]",".","f","2","_","1","3","[","0","]">>)>>,
     <<<<"L","i","n","e"," ","2","2">>, Str(<<"t","o","p","m","o","s","t","S","u","b","f","o","r","m","[","0","]",".","P","a","g","e","2","[","0","]",".","f","2","_","1","4","[","0","]">>)>>,
     <<<<"L","i","n","e"," ","2","3">>, Str(<<"t","o","p","m","o","s","t","S","u","b","f","o","r","m","[","0","]",".","P","a","g","e","2","[","0","]",".","f","2","_","1","5","[","0","]">>)>>,
     <<<<"L","i","n","e"," ","2","4">>, Str(<<"t","o","p","m","o","s","t","S","u","b","f","o","r","m","[","0","]",".","P","a","g","e","2","[","0","]",".","f","2","_","1","6","[","0","]">>)>>,
     <<<<"L","i","n","e"," ","2","5","a">>, Str(<<"t","o","p","m","o","s","t","S","u","b","f","o","r","m","[","0","]",".","P","a","g","e","2","[","0","]",".","f","2","_","1","7","[","0","]">>)>>,
     <<<<"L","i","n","e"," ","2","5","b">>, Str(<<"t","o","p","m","o","s","t","S","u","b","f","o","r","m","[","0","]",".","P","a","g","e","2","[","0","]",".","f","2","_","1","8","[","0","]">>)>>,
     <<<<"L","i","n","e"," ","2","5","c">>, Str(<<"t","o","p","m","o","s","t","S","u","b","f","o","r","m","[","0","]",".","P","a","g","e","2","[","0","]",".","f","2","_","1","9","[","0","]">>)>>,
     <<<<"L","i","n","e"," ","2","5","d">>, Str(<<"t","o","p","m","o","s","t","S","u","b","f","o","r","m","[","0","]",".","P","a","g","e","2","[","0","]",".","f","2","_","2","0","[","0","]">>)>>,
     <<<<"L","i","n","e"," ","2","6">>, Str(<<"t","o","p","m","o","s","t","S","u","b","f","o","r","m","[","0","]",".","P","a","g","e","2","[","0","]",".","f","2","_","2","1","[","0","]">>)>>,
     <<<<"L","i","n","e"," ","2","7","a">>, Str(<<"t","o","p","m","o","s","t","S","u","b","f","o","r","m","[","0","]",".","P","a","g","e","2","[","0","]",".","f","2","_","2","3","[","0","]">>)>>,
     <<<<"L","i","n","e"," ","2","8">>, Str(<<"t","o","p","m","o","s","t","S","u","b","f","o","r","m","[","0","]",".","P","a","g","e","2","[","0","]",".","f","2","_","2","4","[","0","]">>)>>,
     <<<<"L","i","n","e"," ","2","9">>, Str(<<"t","o","p","m","o","s","t","S","u","b","f","o","r","m","[","0","]",".","P","a","g","e","2","[","0","]",".","f","2","_","2","5","[","0","]">>)>>,
     <<<<"L","i","n","e"," ","3","0">>, Str(<<"t","o","p","m","o","s","t","S","u","b","f","o","r","m","[","0","]",".","P","a","g","e","2","[","0","]",".","f","2","_","2","6","[","0","]">>)>>,
     <<<<"L","i","n","e"," ","3","1">>, Str(<<"t","o","p","m","o","s","t","S","u","b","f","o","r","m","[","0","]",".","P","a","g","e","2","[","0","]",".","f","2","_","2","7","[","0","]">>)>>,
     <<<<"L","i","n","e"," ","3","2">>, Str(<<"t","o","p","m","o","s","t","S","u","b","f","o","r","m","[","0","]",".","P","a","g","e","2","[","0","]",".","f","2","_","2","8","[","0","]">>)>>,
     <<<<"L","i","n","e"," ","3","3">>, Str(<<"t","o","p","m","o","s","t","S","u","b","f","o","r","m","[","0","]",".","P","a","g","e","2","[","0","]",".","f","2","_","2","9","[","0","]">>)>>,
     <<<<"L","i","n","e"," ","3","4">>, Str(<<"t","o","p","m","o","s","t","S","u","b","f","o","r","m","[","0","]",".","P","a","g","e","2","[","0","]",".","f","2","_","3","0","[","0","]">>)>>,
     <<<<"L","i","n","e"," ","3","5","a">>, Str(<<"t","o","p","m","o","s","t","S","u","b","f","o","r","m","[","0","]",".","P","a","g","e","2","[","0","]",".","f","2","_","3","1","[","0","]">>)>>,
     <<<<"L","i","n","e"," ","3","6">>, Str(<<"t","o","p","m","o","s","t","S","u","b","f","o","r","m","[","0","]",".","P","a","g","e","2","[","0","]",".","f","2","_","3","4","[","0","]">>)>>,
     <<<<"L","i","n","e"," ","3","7">>, Str(<<"t","o","p","m","o","s","t","S","u","b","f","o","r","m","[","0","]",".","P","a","g","e","2","[","0","]",".","f","2","_","3","5","[","0","]">>)>>,
     <<<<"L","i","n","e"," ","3","8">>, Str(<<"t","o","p","m","o","s","t","S","u","b","f","o","r","m","[","0","]",".","P","a","g","e","2","[","0","]",".","f","2","_","3","6","[","0","]">>)>> >>

f1040_2025 == MappingOf(F1040Entries, 1, Len(F1040Entries))

\* f1040Mappings[year] || f1040Mappings[2025]
getF1040Mapping(year) == IF year = BaselineYear THEN f1040_2025 ELSE f1040_2025

----------------------------------------------------------------------------
(* F8949Parser *)

MAX_ROWS_PER_FORM == 14

\* 365 * 24 * 60 * 60 * 1000 ms, in the model's unit of 1000 ms
ONE_YEAR_MS == 365 * 24 * 60 * 60

RequiredColumns == <<"quantity", "name", "purchaseDate", "sellDate",
                     "purchasePrice", "sellPrice">>
OptionalColumns == <<"code", "adjustment">>

EXPECTED_HEADERS(key) ==
  CASE key = "quantity"      -> <<<<"q","u","a","n","t","i","t","y">>, <<"q","t","y">>, <<"s","h","a","r","e","s">>, <<"u","n","i","t","s">>>>
    [] key = "name"          -> <<<<"n","a","m","e">>, <<"d","e","s","c","r","i","p","t","i","o","n">>, <<"s","e","c","u","r","i","t","y">>, <<"a","s","s","e","t">>>>
    [] key = "purchaseDate"  -> <<<<"p","u","r","c","h","a","s","e"," ","d","a","t","e">>, <<"a","c","q","u","i","r","e","d">>, <<"b","u","y"," ","d","a","t","e">>, <<"d","a","t","e"," ","a","c","q","u","i","r","e","d">>>>
    [] key = "sellDate"      -> <<<<"s","e","l","l"," ","d","a","t","e">>, <<"s","o","l","d">>, <<"s","a","l","e"," ","d","a","t","e">>, <<"d","a","t","e"," ","s","o","l","d">>>>
    [] key = "purchasePrice" -> <<<<"p","u","r","c","h","a","s","e"," ","p","r","i","c","e">>, <<"c","o","s","t"," ","b","a","s","i","s">>, <<"b","a","s","i","s">>, <<"c","o","s","t">>>>
    [] key = "sellPrice"     -> <<<<"s","e","l","l"," ","p","r","i","c","e">>, <<"p","r","o","c","e","e","d","s">>, <<"s","a","l","e"," ","p","r","i","c","e">>, <<"s","a","l","e","s"," ","p","r","o","c","e","e","d","s">>>>
    [] key = "code"          -> <<<<"c","o","d","e">>, <<"c","o","d","e","(","s",")">>, <<"c","o","d","e","s">>>>
    [] key = "adjustment"    -> <<<<"a","d","j","u","s","t","m","e","n","t">>, <<"a","m","o","u","n","t"," ","o","f"," ","a","d","j","u","s","t","m","e","n","t">>, <<"a","d","j">>>>

\* A faulty match: the sheet name is compared as it is written
F8949Parser_canParse_CaseSensitive(sheetName) ==
  sheetName = <<"f","8","9","4","9">> \/ sheetName = <<"8","9","4","9">>

F8949Parser_canParse(sheetName) ==
  toLowerCase(sheetName) = <<"f","8","9","4","9">> \/ toLowerCase(sheetName) = <<"8","9","4","9">>

\* col.toLowerCase().trim() of every header of the row, in key order
NormalizedHeaders(firstRow) ==
  AsSeq([i \in 1..Len(firstRow) |-> trim(toLowerCase(firstRow[i][1]))])

\* The callback of detectColumns' find (lines 142-147), on the normalized
\* header: does the header match the role?
HeaderMatches(normalized, possibleHeaders) ==
  \E p \in 1..Len(possibleHeaders) :
    includes(normalized, possibleHeaders[p]) \/ includes(possibleHeaders[p], normalized)

\* Object.keys(firstRow).find(...): [found, col] for the first header that
\* matches; found is false when no header matches
FindColumn(firstRow, normalized, key) ==
  LET possibleHeaders == EXPECTED_HEADERS(key)
  IN IF \E i \in 1..Len(firstRow) : HeaderMatches(normalized[i], possibleHeaders)
       THEN [found |-> TRUE,
             col |-> firstRow[CHOOSE i \in 1..Len(firstRow) :
                        /\ HeaderMatches(normalized[i], possibleHeaders)
                        /\ \A j \in 1..(i - 1) :
                             ~HeaderMatches(normalized[j], possibleHeaders)][1]]
       ELSE [found |-> FALSE, col |-> <<>>]

\* `if (found)`: a header that is the empty string is falsy
FoundTruthy(f) == f.found /\ f.col # <<>>

\* columnMap[key] = found, when found is truthy
ColumnEntry(key, f) == IF FoundTruthy(f) THEN key :> f.col ELSE <<>>

\* detectColumns(firstRow): [ok, columnMap]; ok is false for `return null`.
\* columnMap is a function from the resolved roles to their headers.
detectColumns(firstRow) ==
  LET normalized == NormalizedHeaders(firstRow)
      columnMap ==
        ColumnEntry("quantity", FindColumn(firstRow, normalized, "quantity"))
        @@ ColumnEntry("name", FindColumn(firstRow, normalized, "name"))
        @@ ColumnEntry("purchaseDate", FindColumn(firstRow, normalized, "purchaseDate"))
        @@ ColumnEntry("sellDate", FindColumn(firstRow, normalized, "sellDate"))
        @@ ColumnEntry("purchasePrice", FindColumn(firstRow, normalized, "purchasePrice"))
        @@ ColumnEntry("sellPrice", FindColumn(firstRow, normalized, "sellPrice"))
        @@ ColumnEntry("code", FindColumn(firstRow, normalized, "code"))
        @@ ColumnEntry("adjustment", FindColumn(firstRow, normalized, "adjustment"))
  IN IF \E i \in 1..Len(RequiredColumns) : RequiredColumns[i] \notin DOMAIN columnMap
       THEN [ok |-> FALSE, columnMap |-> <<>>]
       ELSE [ok |-> TRUE, columnMap |-> columnMap]

\* row[columnMap.key]: an unresolved role reads row[undefined]
RowCell(row, columnMap, key) ==
  IF key \in DOMAIN columnMap THEN ObjGet(row, columnMap[key])
  ELSE ObjGet(row, PropertyKey(Undefined))

\* parseDate(value): a number is an Excel serial, anything else goes to
\* new Date(value)
parseDate(value) ==
  CASE value.t = "number" ->
         LET utc_days == value.n - ExcelEpochOffset
             utc_value == utc_days * SecondsPerDay
         IN DateAt(utc_value)
    [] value.t = "string" -> NewDateFromString(value.s)
    [] value.t = "null" -> DateAt(0)
    [] OTHER -> InvalidDate

\* A faulty comparison: a holding period of exactly one year is short-term
isShortTermGain_Inclusive(purchaseDate, sellDate) ==
  IF purchaseDate.valid /\ sellDate.valid
    THEN sellDate.time - purchaseDate.time <= ONE_YEAR_MS
    ELSE FALSE

\* isShortTermGain: getTime() of an Invalid Date is NaN and NaN < x is false
isShortTermGain(purchaseDate, sellDate) ==
  IF purchaseDate.valid /\ sellDate.valid
    THEN sellDate.time - purchaseDate.time < ONE_YEAR_MS
    ELSE FALSE

\* `value || fallback`
OrElse(v, fallback) == IF Truthy(v) THEN v ELSE fallback

\* The object pushed for one row (lines 109-123).  Nothing in it throws for
\* the values of the model, so the catch of line 124 is never entered.
ParseTransactionRow(row, columnMap) ==
  LET purchaseDate == parseDate(RowCell(row, columnMap, "purchaseDate"))
      sellDate == parseDate(RowCell(row, columnMap, "sellDate"))
  IN [quantity      |-> parseNumber(RowCell(row, columnMap, "quantity"), 0),
      name          |-> StringOf(OrElse(RowCell(row, columnMap, "name"), Str(<<>>))),
      purchaseDate  |-> formatDate(RowCell(row, columnMap, "purchaseDate")),
      sellDate      |-> formatDate(RowCell(row, columnMap, "sellDate")),
      purchasePrice |-> parseNumber(RowCell(row, columnMap, "purchasePrice"), 0),
      sellPrice     |-> parseNumber(RowCell(row, columnMap, "sellPrice"), 0),
      code          |-> StringOf(OrElse(RowCell(row, columnMap, "code"), Str(<<>>))),
      adjustment    |-> parseNumber(OrElse(RowCell(row, columnMap, "adjustment"), Num(0)), 0),
      isShortTerm   |-> isShortTermGain(purchaseDate, sellDate)]

\* A faulty skip: every falsy quantity is skipped, the number 0 too
SkipsRow_Falsy(row, columnMap) ==
  ~Truthy(RowCell(row, columnMap, "quantity"))

\* Does the loop of parseTransactions skip the row (line 106)?
SkipsRow(row, columnMap) == isEmpty(RowCell(row, columnMap, "quantity"))

\* The loop of parseTransactions (lines 105-127): one transaction for
\* each row it does not skip, in row order
ParseTransactionRows(rows, columnMap) ==
  LET kept == SelectSeq(rows, LAMBDA row : ~SkipsRow(row, columnMap))
  IN AsSeq([i \in 1..Len(kept) |-> ParseTransactionRow(kept[i], columnMap)])

parseTransactions(rows) ==
  LET detected == detectColumns(rows[1])
  IN IF ~detected.ok THEN <<>>
     ELSE ParseTransactionRows(rows, detected.columnMap)

\* An entry { field, message } of a validator's lists
Issue(field, message) == [field |-> field, message |-> message]

\* mapping[`${typePrefix}_r${idx}_c${col}`], as a property key
CellKey(mapping, typePrefix, idx, col) ==
  PropertyKey(MappingGet(mapping,
    typePrefix \o <<"_","r">> \o NumberToString(idx) \o <<"_","c">> \o NumberToString(col)))

\* mapping[`${typePrefix}_total_${which}`], as a property key
TotalKey(mapping, typePrefix, which) ==
  PropertyKey(MappingGet(mapping, typePrefix \o <<"_","t","o","t","a","l","_">> \o which))

\* A faulty gain: the adjustment is left out
GainLoss_NoAdjustment(transaction) ==
  transaction.sellPrice - transaction.purchasePrice

\* const gainLoss (line 207)
GainLoss(transaction) ==
  transaction.sellPrice - transaction.purchasePrice - transaction.adjustment

\* A faulty callback: the code cell is written even when the code is empty
RowAssignments_AlwaysCode(transaction, idx, typePrefix, mapping) ==
  LET gainLoss == GainLoss(transaction)
  IN << <<CellKey(mapping, typePrefix, idx, 0),
          Str(NumberToString(transaction.quantity) \o <<" ","s","h","."," ">> \o transaction.name)>>,
        <<CellKey(mapping, typePrefix, idx, 1), Str(transaction.purchaseDate)>>,
        <<CellKey(mapping, typePrefix, idx, 2), Str(transaction.sellDate)>>,
        <<CellKey(mapping, typePrefix, idx, 3), Num(transaction.sellPrice)>>,
        <<CellKey(mapping, typePrefix, idx, 4), Num(transaction.purchasePrice)>> >>
     \o << <<CellKey(mapping, typePrefix, idx, 5), Str(transaction.code)>> >>
     \o << <<CellKey(mapping, typePrefix, idx, 6), Num(transaction.adjustment)>>,
           <<CellKey(mapping, typePrefix, idx, 7), Num(gainLoss)>> >>

\* The assignments formData[key] = value one call of the forEach callback
\* makes (lines 206-236), in order
RowAssignments(transaction, idx, typePrefix, mapping) ==
  LET gainLoss == GainLoss(transaction)
  IN << <<CellKey(mapping, typePrefix, idx, 0),
          Str(NumberToString(transaction.quantity) \o <<" ","s","h","."," ">> \o transaction.name)>>,
        <<CellKey(mapping, typePrefix, idx, 1), Str(transaction.purchaseDate)>>,
        <<CellKey(mapping, typePrefix, idx, 2), Str(transaction.sellDate)>>,
        <<CellKey(mapping, typePrefix, idx, 3), Num(transaction.sellPrice)>>,
        <<CellKey(mapping, typePrefix, idx, 4), Num(transaction.purchasePrice)>> >>
     \o (IF transaction.code # <<>>
           THEN << <<CellKey(mapping, typePrefix, idx, 5), Str(transaction.code)>> >>
           ELSE <<>>)
     \o << <<CellKey(mapping, typePrefix, idx, 6), Num(transaction.adjustment)>>,
           <<CellKey(mapping, typePrefix, idx, 7), Num(gainLoss)>> >>

\* chunk.forEach: the assignments of the rows idx, idx + 1, ... in order
RECURSIVE ChunkAssignments(_, _, _, _)
ChunkAssignments(chunk, idx, typePrefix, mapping) ==
  IF idx >= Len(chunk) THEN <<>>
  ELSE RowAssignments(chunk[idx + 1], idx, typePrefix, mapping)
       \o ChunkAssignments(chunk, idx + 1, typePrefix, mapping)

\* total += x for the numbers x of a sequence, starting from 0
RECURSIVE Accumulate(_)
Accumulate(xs) ==
  IF xs = <<>> THEN 0
  ELSE Accumulate(SubSeq(xs, 1, Len(xs) - 1)) + xs[Len(xs)]

\* A faulty slice: one row short of the capacity, so that a row is lost
\* at every chunk boundary
ChunkSlice_OneShort(transactions, i) ==
  SubSeq(transactions, i + 1,
         IF i + MAX_ROWS_PER_FORM - 1 < Len(transactions)
           THEN i + MAX_ROWS_PER_FORM - 1 ELSE Len(transactions))

\* transactions.slice(i, i + MAX_ROWS_PER_FORM)
ChunkSlice(transactions, i) ==
  SubSeq(transactions, i + 1,
         IF i + MAX_ROWS_PER_FORM < Len(transactions)
           THEN i + MAX_ROWS_PER_FORM ELSE Len(transactions))

\* The totals of a chunk (lines 201-204 and 238-241)
ChunkTotals(chunk) ==
  [totalProceeds   |-> Accumulate(AsSeq([i \in 1..Len(chunk) |-> chunk[i].sellPrice])),
   totalCost       |-> Accumulate(AsSeq([i \in 1..Len(chunk) |-> chunk[i].purchasePrice])),
   totalGainLoss   |-> Accumulate(AsSeq([i \in 1..Len(chunk) |-> GainLoss(chunk[i])])),
   totalAdjustment |-> Accumulate(AsSeq([i \in 1..Len(chunk) |-> chunk[i].adjustment]))]

\* The body of chunkTransactions' for loop (lines 198-250): the field map of
\* one chunk
ChunkFormData(chunk, typePrefix, mapping) ==
  LET totals == ChunkTotals(chunk)
  IN ObjFromAssignments(
       ChunkAssignments(chunk, 0, typePrefix, mapping)
       \o << <<TotalKey(mapping, typePrefix, <<"p","r","o","c","e","e","d">>), Num(totals.totalProceeds)>>,
             <<TotalKey(mapping, typePrefix, <<"c","o","s","t">>), Num(totals.totalCost)>>,
             <<TotalKey(mapping, typePrefix, <<"g","l">>), Num(totals.totalGainLoss)>>,
             <<TotalKey(mapping, typePrefix, <<"a","d","j">>), Num(totals.totalAdjustment)>> >>)

RECURSIVE ChunkLoop(_, _, _, _, _)
ChunkLoop(transactions, typePrefix, mapping, i, chunks) ==
  IF i >= Len(transactions) THEN chunks
  ELSE ChunkLoop(transactions, typePrefix, mapping, i + MAX_ROWS_PER_FORM,
         Append(chunks, ChunkFormData(ChunkSlice(transactions, i), typePrefix, mapping)))

chunkTransactions(transactions, typePrefix, mapping) ==
  ChunkLoop(transactions, typePrefix, mapping, 0, <<>>)

\* A faulty id: the instances are numbered from 0
F8949FormId_FromZero(i) == <<"f","8","9","4","9","_">> \o NumberToString(i)

\* `f8949_${i + 1}`
F8949FormId(i) == <<"f","8","9","4","9","_">> \o NumberToString(i + 1)

\* `forms[i] || {}`
FormAt(forms, i) == IF i + 1 <= Len(forms) THEN forms[i + 1] ELSE <<>>

RECURSIVE CombineLoop(_, _, _, _, _)
CombineLoop(shortTermForms, longTermForms, totalForms, i, res) ==
  IF i >= totalForms THEN res
  ELSE CombineLoop(shortTermForms, longTermForms, totalForms, i + 1,
         ObjSet(res, F8949FormId(i),
                ObjAssign(ObjAssign(<<>>, FormAt(shortTermForms, i)),
                          FormAt(longTermForms, i))))

combineForms(shortTermForms, longTermForms) ==
  CombineLoop(shortTermForms, longTermForms,
              MathMax(Len(shortTermForms), Len(longTermForms)), 0, <<>>)

\* The warnings of the inner loop (lines 287-294), in key order
NegativeProceeds(formId, formData) ==
  LET hits == SelectSeq(formData,
                LAMBDA e : includes(e[1], <<"_","c","3">>) /\ e[2].t = "number" /\ e[2].n < 0)
  IN AsSeq([i \in 1..Len(hits) |->
         Issue(formId \o <<".">> \o hits[i][1], <<"N","e","g","a","t","i","v","e"," ","p","r","o","c","e","e","d","s"," ","a","m","o","u","n","t"," ","d","e","t","e","c","t","e","d">>)])

RECURSIVE ValidateForms(_, _)
ValidateForms(entries, warnings) ==
  IF entries = <<>> THEN warnings
  ELSE LET formId == entries[1][1]
           formData == entries[1][2]
           w1 == IF Len(formData) = 0
                   THEN Append(warnings, Issue(formId, <<"F","o","r","m"," ","h","a","s"," ","n","o"," ","d","a","t","a">>))
                   ELSE warnings
       IN ValidateForms(Tail(entries), w1 \o NegativeProceeds(formId, formData))

\* A faulty validator: it sets the negative amounts it finds to zero in
\* the object it was given
F8949Parser_validate_Clamping(data) ==
  LET Clamp(formData) ==
        AsSeq([k \in 1..Len(formData) |->
                 IF formData[k][2].t = "number" /\ formData[k][2].n < 0
                   THEN <<formData[k][1], Num(0)>> ELSE formData[k]])
      errors == IF Len(data) = 0
                  THEN <<Issue(<<"f","o","r","m","s">>, <<"N","o"," ","f","o","r","m","s"," ","g","e","n","e","r","a","t","e","d">>)>> ELSE <<>>
  IN [data |-> AsSeq([i \in 1..Len(data) |-> <<data[i][1], Clamp(data[i][2])>>]),
      validation |-> createValidationResult(Len(errors) = 0, errors,
                                            ValidateForms(data, <<>>))]

\* validate(data): [data, validation].  data is the object the caller
\* passed, as validate leaves it (it is passed by reference).
F8949Parser_validate(data) ==
  LET errors == IF Len(data) = 0
                  THEN <<Issue(<<"f","o","r","m","s">>, <<"N","o"," ","f","o","r","m","s"," ","g","e","n","e","r","a","t","e","d">>)>> ELSE <<>>
      warnings == ValidateForms(data, <<>>)
  IN [data |-> data,
      validation |-> createValidationResult(Len(errors) = 0, errors, warnings)]

SelectShortTerm(transactions) == SelectSeq(transactions, LAMBDA t : t.isShortTerm)
SelectLongTerm(transactions) == SelectSeq(transactions, LAMBDA t : ~t.isShortTerm)

F8949Parser_parse(rows, options) ==
  IF Len(rows) = 0
    THEN createParseResult(<<>>, <<>>,
           createValidationResult(FALSE,
             <<Issue(<<"s","h","e","e","t">>, <<"N","o"," ","d","a","t","a"," ","f","o","u","n","d"," ","i","n"," ","s","h","e","e","t">>)>>, <<>>))
  ELSE
  LET transactions == parseTransactions(rows)
  IN IF Len(transactions) = 0
       THEN createParseResult(<<>>, <<>>,
              createValidationResult(FALSE,
                <<Issue(<<"d","a","t","a">>, <<"N","o"," ","v","a","l","i","d"," ","t","r","a","n","s","a","c","t","i","o","n","s"," ","f","o","u","n","d">>)>>, <<>>))
     ELSE
     LET shortTerm == SelectShortTerm(transactions)
         longTerm == SelectLongTerm(transactions)
         mapping == getF8949Mapping(options.year)
         shortTermForms == chunkTransactions(shortTerm, <<"s","t">>, mapping)
         longTermForms == chunkTransactions(longTerm, <<"l","t">>, mapping)
         formsData == combineForms(shortTermForms, longTermForms)
         formIds == ObjKeys(formsData)
         validated == F8949Parser_validate(formsData)
     IN IF options.validate
          THEN createParseResult(formIds, validated.data, validated.validation)
          ELSE createParseResult(formIds, formsData,
                                 createValidationResult(TRUE, <<>>, <<>>))

----------------------------------------------------------------------------
(* F1040Parser *)

F1040Parser_canParse(sheetName) ==
  toLowerCase(sheetName) = <<"f","1","0","4","0">> \/ toLowerCase(sheetName) = <<"1","0","4","0">>

\* A faulty test: the keys of the row are not looked at
looksLikeHeader_KeysIgnored(row) ==
  LET firstValue == IF Len(row) > 0 THEN row[1][2] ELSE Undefined
      names == <<<<"v","a","r","i","a","b","l","e">>, <<"f","i","e","l","d">>, <<"l","i","n","e">>, <<"i","t","e","m">>>>
  IN IF firstValue.t # "string" THEN FALSE
     ELSE \E h \in 1..Len(names) : includes(trim(toLowerCase(firstValue.s)), names[h])

looksLikeHeader(row) ==
  LET keys == ObjKeys(row)
      hasProperKeys == \E i \in 1..Len(keys) :
                         toLowerCase(keys[i]) = <<"v","a","r","i","a","b","l","e">> \/ toLowerCase(keys[i]) = <<"v","a","l","u","e">>
      firstValue == IF Len(row) > 0 THEN row[1][2] ELSE Undefined
      normalized == trim(toLowerCase(firstValue.s))
      names == <<<<"v","a","r","i","a","b","l","e">>, <<"f","i","e","l","d">>, <<"l","i","n","e">>, <<"i","t","e","m">>>>
  IN IF hasProperKeys THEN FALSE
     ELSE IF firstValue.t # "string" THEN FALSE
     ELSE \E h \in 1..Len(names) : includes(normalized, names[h])

hasColumns(row, expectedColumns) ==
  LET keys == AsSeq([i \in 1..Len(row) |-> trim(toLowerCase(row[i][1]))])
  IN \A c \in 1..Len(expectedColumns) :
       \E i \in 1..Len(keys) :
         includes(keys[i], expectedColumns[c]) \/ includes(expectedColumns[c], keys[i])

\* headers.find(h => some of the words is in h.toLowerCase()): [found, col]
FindHeaderWith(headers, words) ==
  LET hits == SelectSeq(headers,
                LAMBDA h : \E w \in 1..Len(words) : includes(toLowerCase(h), words[w]))
  IN IF hits = <<>> THEN [found |-> FALSE, col |-> <<>>]
     ELSE [found |-> TRUE, col |-> Head(hits)]

\* The last four lines of both row loops (lines 132-135 and 159-162)
StoreField(fieldValues, mapping, variable, value) ==
  LET mappedKey == MappingGet(mapping, StringOf(variable))
  IN IF Truthy(mappedKey) /\ ~isEmpty(value)
       THEN ObjSet(fieldValues, PropertyKey(mappedKey), value)
       ELSE fieldValues

RECURSIVE ColumnFormatLoop(_, _, _, _, _, _)
ColumnFormatLoop(rows, variableCol, valueCol, mapping, fieldValues, skipEmptyRows) ==
  IF rows = <<>> THEN fieldValues
  ELSE LET variable == ObjGet(Head(rows), variableCol)
           value == ObjGet(Head(rows), valueCol)
       IN IF isEmpty(variable)
            THEN IF skipEmptyRows
                   THEN ColumnFormatLoop(Tail(rows), variableCol, valueCol, mapping,
                                         fieldValues, skipEmptyRows)
                   ELSE fieldValues
            ELSE ColumnFormatLoop(Tail(rows), variableCol, valueCol, mapping,
                                  StoreField(fieldValues, mapping, variable, value),
                                  skipEmptyRows)

\* parseColumnFormat: fieldValues as the call leaves it
parseColumnFormat(rows, mapping, fieldValues, skipEmptyRows) ==
  IF Len(rows) = 0 THEN fieldValues
  ELSE LET headers == ObjKeys(rows[1])
           variableCol == FindHeaderWith(headers, <<<<"v","a","r","i","a","b","l","e">>, <<"f","i","e","l","d">>, <<"l","i","n","e">>>>)
           valueCol == FindHeaderWith(headers, <<<<"v","a","l","u","e">>, <<"a","m","o","u","n","t">>>>)
       IN IF ~FoundTruthy(variableCol) \/ ~FoundTruthy(valueCol) THEN fieldValues
          ELSE ColumnFormatLoop(rows, variableCol.col, valueCol.col, mapping,
                                fieldValues, skipEmptyRows)

RECURSIVE SimpleFormatLoop(_, _, _, _, _)
SimpleFormatLoop(rows, variableCol, valueCol, mapping, fieldValues) ==
  IF rows = <<>> THEN fieldValues
  ELSE LET variable == ObjGet(Head(rows), variableCol)
           value == ObjGet(Head(rows), valueCol)
       IN IF isEmpty(variable) THEN fieldValues
          ELSE SimpleFormatLoop(Tail(rows), variableCol, valueCol, mapping,
                                StoreField(fieldValues, mapping, variable, value))

\* parseSimpleFormat: fieldValues as the call leaves it
parseSimpleFormat(rows, mapping, fieldValues) ==
  LET headers == IF Len(rows) > 0 THEN ObjKeys(rows[1]) ELSE <<>>
  IN IF Len(headers) < 2 THEN fieldValues
     ELSE SimpleFormatLoop(rows, headers[1], headers[2], mapping, fieldValues)

F1040FormId == <<"f","1","0","4","0">>

F1040RequiredFields == <<<<"t","o","p","m","o","s","t","S","u","b","f","o","r","m","[","0","]",".","P","a","g","e","1","[","0","]",".","f","1","_","3","2","[","0","]">>>>

RECURSIVE RequiredFieldWarnings(_, _, _)
RequiredFieldWarnings(formData, fields, warnings) ==
  IF fields = <<>> THEN warnings
  ELSE RequiredFieldWarnings(formData, Tail(fields),
         IF isEmpty(ObjGet(formData, Head(fields)))
           THEN Append(warnings, Issue(Head(fields), <<"R","e","q","u","i","r","e","d"," ","f","i","e","l","d"," ","i","s"," ","e","m","p","t","y">>))
           ELSE warnings)

\* validate(data): [data, validation], data as validate leaves it
F1040Parser_validate(data) ==
  IF ~ObjHas(data, F1040FormId) \/ Len(ObjGet(data, F1040FormId)) = 0
    THEN [data |-> data,
          validation |-> createValidationResult(FALSE,
            <<Issue(<<"f","1","0","4","0">>, <<"N","o"," ","d","a","t","a"," ","f","o","u","n","d"," ","f","o","r"," ","F","o","r","m"," ","1","0","4","0">>)>>, <<>>)]
  ELSE [data |-> data,
        validation |-> createValidationResult(TRUE, <<>>,
          RequiredFieldWarnings(ObjGet(data, F1040FormId), F1040RequiredFields, <<>>))]

\* Which of the two extractions parse uses (line 46)
UsesColumnFormat(firstRow) ==
  looksLikeHeader(firstRow) /\ hasColumns(firstRow, <<<<"v","a","r","i","a","b","l","e">>, <<"v","a","l","u","e">>>>)

\* A faulty parse: the validator runs whatever options.validate says
F1040Parser_parse_AlwaysValidates(rows, options) ==
  IF Len(rows) = 0
    THEN createParseResult(<<>>, <<>>,
           createValidationResult(FALSE,
             <<Issue(<<"s","h","e","e","t">>, <<"N","o"," ","d","a","t","a"," ","f","o","u","n","d"," ","i","n"," ","s","h","e","e","t">>)>>, <<>>))
  ELSE
  LET mapping == getF1040Mapping(options.year)
      firstRow == rows[1]
      dataRows == IF looksLikeHeader(firstRow) THEN Tail(rows) ELSE rows
      fieldValues == IF UsesColumnFormat(firstRow)
                       THEN parseColumnFormat(dataRows, mapping, <<>>, options.skipEmptyRows)
                       ELSE parseSimpleFormat(dataRows, mapping, <<>>)
      validated == F1040Parser_validate(<< <<F1040FormId, fieldValues>> >>)
  IN createParseResult(<<F1040FormId>>, validated.data, validated.validation)

F1040Parser_parse(rows, options) ==
  IF Len(rows) = 0
    THEN createParseResult(<<>>, <<>>,
           createValidationResult(FALSE,
             <<Issue(<<"s","h","e","e","t">>, <<"N","o"," ","d","a","t","a"," ","f","o","u","n","d"," ","i","n"," ","s","h","e","e","t">>)>>, <<>>))
  ELSE
  LET mapping == getF1040Mapping(options.year)
      firstRow == rows[1]
      hasHeader == looksLikeHeader(firstRow)
      dataRows == IF hasHeader THEN Tail(rows) ELSE rows
      fieldValues == IF UsesColumnFormat(firstRow)
                       THEN parseColumnFormat(dataRows, mapping, <<>>, options.skipEmptyRows)
                       ELSE parseSimpleFormat(dataRows, mapping, <<>>)
      formsData == << <<F1040FormId, fieldValues>> >>
      validated == F1040Parser_validate(formsData)
  IN IF options.validate
       THEN createParseResult(<<F1040FormId>>, validated.data, validated.validation)
       ELSE createParseResult(<<F1040FormId>>, formsData,
                              createValidationResult(TRUE, <<>>, <<>>))

----------------------------------------------------------------------------
(* ParserRegistry *)

\* this.parsers after the constructor, in registration order
Parsers == <<"F8949Parser", "F1040Parser">>

CanParse(parser, sheetName) ==
  CASE parser = "F8949Parser" -> F8949Parser_canParse(sheetName)
    [] parser = "F1040Parser" -> F1040Parser_canParse(sheetName)

\* findParser: the first registered parser that can parse, or "none"
findParser(sheetName) ==
  LET hits == SelectSeq(Parsers, LAMBDA p : CanParse(p, sheetName))
  IN IF hits = <<>> THEN "none" ELSE Head(hits)

ParserRegistry_parse(sheetName, rows, options) ==
  LET parser == findParser(sheetName)
  IN CASE parser = "none" ->
            [formIds |-> <<>>,
             formsData |-> <<>>,
             validation |->
               [isValid |-> FALSE,
                errors |-> <<[field |-> <<"s","h","e","e","t">>,
                              message |-> <<"N","o"," ","p","a","r","s","e","r"," ","f","o","u","n","d"," ","f","o","r"," ","s","h","e","e","t",":"," ">> \o sheetName,
                              severity |-> "error"]>>,
                warnings |-> <<>>]]
       [] parser = "F8949Parser" -> F8949Parser_parse(rows, options)
       [] parser = "F1040Parser" -> F1040Parser_parse(rows, options)

----------------------------------------------------------------------------
(* ExcelParserService *)

\* A file is [corrupt, sheets]: XLSX.read throws on a corrupt file. A sheet
\* is [name, rows, readFails, error]: rows is what sheet_to_json gives with
\* raw: false and defval: '', every cell a text; when readFails the try
\* block throws an Error with the message error.

DefaultYear == 2025

\* { year: 2025, validate: true, skipEmptyRows: true, ...options }
DefaultOptions(options) ==
  options @@ [year |-> DefaultYear, validate |-> TRUE, skipEmptyRows |-> TRUE]

\* allFormsData, sheetsProcessed, sheetsFailed, allErrors and allWarnings
\* before the loop
NoSheets ==
  [formsData |-> <<>>, sheetsProcessed |-> <<>>, sheetsFailed |-> <<>>,
   errors |-> <<>>, warnings |-> <<>>]

\* The catch block: the sheet is listed as failed, with an error
SheetFailed(acc, sheet) ==
  [acc EXCEPT !.sheetsFailed = Append(@, sheet.name),
              !.errors = Append(@, [field |-> sheet.name,
                                    message |-> <<"F","a","i","l","e","d"," ","t","o"," ","p","a","r","s","e"," ","s","h","e","e","t",":"," ">> \o sheet.error,
                                    severity |-> "error"])]

\* A faulty merge: a form that is there already keeps the fields the new
\* sheet does not give
MergeResult_FieldByField(acc, sheetName, parsed) ==
  LET merged[n \in 0..Len(parsed.formsData)] ==
        IF n = 0 THEN acc.formsData
        ELSE ObjSet(merged[n - 1], parsed.formsData[n][1],
                    ObjAssign(IF ObjHas(merged[n - 1], parsed.formsData[n][1])
                                THEN ObjGet(merged[n - 1], parsed.formsData[n][1])
                                ELSE <<>>,
                              parsed.formsData[n][2]))
  IN [formsData |-> merged[Len(parsed.formsData)],
      sheetsProcessed |-> IF Len(parsed.formIds) > 0
                            THEN Append(acc.sheetsProcessed, sheetName)
                            ELSE acc.sheetsProcessed,
      sheetsFailed |-> acc.sheetsFailed,
      errors |-> acc.errors \o parsed.validation.errors,
      warnings |-> acc.warnings \o parsed.validation.warnings]

\* The statements after parserRegistry.parse: the merge into allFormsData
\* and the collection of the sheet's errors and warnings
MergeResult(acc, sheetName, parsed) ==
  [formsData |-> ObjAssign(acc.formsData, parsed.formsData),
   sheetsProcessed |-> IF Len(parsed.formIds) > 0
                         THEN Append(acc.sheetsProcessed, sheetName)
                         ELSE acc.sheetsProcessed,
   sheetsFailed |-> acc.sheetsFailed,
   errors |-> acc.errors \o parsed.validation.errors,
   warnings |-> acc.warnings \o parsed.validation.warnings]

\* One turn of the loop over workbook.SheetNames
ParseFileSheet(acc, sheet, options) ==
  IF sheet.readFails THEN SheetFailed(acc, sheet)
  ELSE IF Len(sheet.rows) = 0 THEN acc
  ELSE MergeResult(acc, sheet.name,
                   ParserRegistry_parse(sheet.name, sheet.rows, options))

RECURSIVE ParseFileLoop(_, _, _)
ParseFileLoop(acc, sheets, options) ==
  IF sheets = <<>> THEN acc
  ELSE ParseFileLoop(ParseFileSheet(acc, Head(sheets), options), Tail(sheets), options)

\* A faulty result: a warning makes the workbook invalid
ExcelParseResult_WarningsInvalidate(all) ==
  [rejected |-> FALSE,
   formsData |-> all.formsData,
   validation |-> [isValid |-> Len(all.errors) = 0 /\ Len(all.warnings) = 0,
                   errors |-> all.errors,
                   warnings |-> all.warnings],
   sheetsProcessed |-> all.sheetsProcessed,
   sheetsFailed |-> all.sheetsFailed]

\* The object parseFile returns
ExcelParseResult(all) ==
  [rejected |-> FALSE,
   formsData |-> all.formsData,
   validation |-> [isValid |-> Len(all.errors) = 0,
                   errors |-> all.errors,
                   warnings |-> all.warnings],
   sheetsProcessed |-> all.sheetsProcessed,
   sheetsFailed |-> all.sheetsFailed]

\* parseFile(file, options): the promise is rejected when XLSX.read throws
parseFile(file, options) ==
  IF file.corrupt THEN [rejected |-> TRUE]
  ELSE ExcelParseResult(ParseFileLoop(NoSheets, file.sheets, DefaultOptions(options)))

----------------------------------------------------------------------------
(* TaxFormFillerApp *)

InitialTaxYear == 2025

\* const { taxYear = this.currentYear, validate = true } = options, and
\* the file: what a call of processExcelFile holds while it awaits parseFile
Awaiting(file, options, year) ==
  [file |-> file,
   year |-> IF "taxYear" \in DOMAIN options THEN options.taxYear ELSE year,
   validate |-> IF "validate" \in DOMAIN options THEN options.validate ELSE TRUE]

\* The options processExcelFile hands to parseFile
ParseFileOptions(awaiting) ==
  [year |-> awaiting.year, validate |-> awaiting.validate, skipEmptyRows |-> TRUE]

\* A faulty store: the forms of the file are merged into the stored ones
StoreFormsData_Merging(stored, parsed) ==
  IF parsed.rejected THEN stored ELSE ObjAssign(stored, parsed.formsData)

\* this.formsData = result.formsData; a rejected parseFile ends the call
\* before the assignment
StoreFormsData(stored, parsed) ==
  IF parsed.rejected THEN stored ELSE parsed.formsData

\* What is remembered of the call that ran to its end last: the call and
\* the ids of the forms that were stored when it ended
Completed(done, awaiting, parsed, stored) ==
  IF parsed.rejected THEN done
  ELSE <<[file |-> awaiting.file, year |-> awaiting.year,
          validate |-> awaiting.validate, replaced |-> ObjKeys(stored)]>>

\* seq without its i-th element
RemoveAt(seq, i) == SubSeq(seq, 1, i - 1) \o SubSeq(seq, i + 1, Len(seq))

----------------------------------------------------------------------------
(* The sheets and options the dispatcher is called with *)

MaxRows == 2          \* rows of an enumerated sheet
MaxLedgerRows == 29   \* rows of a generated ledger: up to three chunks of a class
MaxHoldDays == 367    \* days between the purchase and the sale of a classified pair

\* A row with the given headers, in column order, and one cell per header
MakeRow(headers, cells) == AsSeq([i \in 1..Len(headers) |-> <<headers[i], cells[i]>>])

\* All sequences over S of length at most n
RECURSIVE SeqsUpTo(_, _)
SeqsUpTo(S, n) ==
  IF n = 0 THEN {<<>>}
  ELSE LET shorter == SeqsUpTo(S, n - 1)
       IN shorter \cup {Append(s, x) : s \in {t \in shorter : Len(t) = n - 1}, x \in S}

OptionSets ==
  {[year |-> y, validate |-> v, skipEmptyRows |-> k] :
     y \in {BaselineYear}, v \in BOOLEAN, k \in BOOLEAN}
   \cup {[year |-> BaselineYear - 1, validate |-> TRUE, skipEmptyRows |-> TRUE]}

\* The Excel serial of 2024-01-01, in a leap year
SerialJan1 == ExcelEpochOffset + DaysFromCivil(2024, 1, 1)

\* 8949 sheets: the header layouts, each header with the position of its
\* cell in a record <<quantity, name, purchase date, sell date, purchase
\* price, sell price, code, adjustment>>
FullLayout8949 ==
  << <<<<"Q","u","a","n","t","i","t","y">>, 1>>, <<<<"N","a","m","e">>, 2>>, <<<<"P","u","r","c","h","a","s","e"," ","D","a","t","e">>, 3>>, <<<<"S","e","l","l"," ","D","a","t","e">>, 4>>,
     <<<<"P","u","r","c","h","a","s","e"," ","P","r","i","c","e">>, 5>>, <<<<"S","e","l","l"," ","P","r","i","c","e">>, 6>>, <<<<"C","o","d","e">>, 7>>, <<<<"A","d","j","u","s","t","m","e","n","t">>, 8>> >>

Layouts8949 ==
  { FullLayout8949,
    \* the required columns only, under synonyms and in another order
    << <<<<"D","e","s","c","r","i","p","t","i","o","n">>, 2>>, <<<<" ","Q","T","Y"," ">>, 1>>, <<<<"D","a","t","e"," ","A","c","q","u","i","r","e","d">>, 3>>, <<<<"D","a","t","e"," ","S","o","l","d">>, 4>>,
       <<<<"P","r","o","c","e","e","d","s">>, 6>>, <<<<"C","o","s","t"," ","B","a","s","i","s">>, 5>> >>,
    \* no column for the sell price
    << <<<<"Q","u","a","n","t","i","t","y">>, 1>>, <<<<"N","a","m","e">>, 2>>, <<<<"P","u","r","c","h","a","s","e"," ","D","a","t","e">>, 3>>, <<<<"S","e","l","l"," ","D","a","t","e">>, 4>>,
       <<<<"P","u","r","c","h","a","s","e"," ","P","r","i","c","e">>, 5>> >>,
    \* headers that match more than one role, and roles matched by more
    \* than one header
    << <<<<"S","h","a","r","e","s">>, 1>>, <<<<"A","s","s","e","t">>, 2>>, <<<<"D","a","t","e">>, 3>>, <<<<"D","a","t","e"," ","S","o","l","d">>, 4>>,
       <<<<"C","o","s","t">>, 5>>, <<<<"C","o","s","t"," ","B","a","s","i","s">>, 6>>, <<<<"P","r","o","c","e","e","d","s">>, 6>>, <<<<"C","o","d","e","s">>, 7>> >>,
    \* a first column whose header cell holds the empty text
    << <<<<>>, 7>>, <<<<"Q","u","a","n","t","i","t","y">>, 1>>, <<<<"N","a","m","e">>, 2>>, <<<<"P","u","r","c","h","a","s","e"," ","D","a","t","e">>, 3>>,
       <<<<"S","e","l","l"," ","D","a","t","e">>, 4>>, <<<<"P","u","r","c","h","a","s","e"," ","P","r","i","c","e">>, 5>>, <<<<"S","e","l","l"," ","P","r","i","c","e">>, 6>> >> }

Base8949 ==
  << Str(<<"1","0">>), Str(<<"A","C","M","E">>), Str(<<"2","0","2","4","-","0","1","-","0","1">>), Str(<<"2","0","2","4","-","1","2","-","3","0">>),
     Str(<<"1","0","0">>), Str(<<"1","5","0">>), Str(<<>>), Str(<<>>) >>

\* The records of an enumerated 8949 sheet: the base record (held 364 days)
\* and records that differ from it in the cells named
Records8949 ==
  { Base8949,
    [Base8949 EXCEPT ![1] = Str(<<>>)],
    [Base8949 EXCEPT ![1] = Null, ![6] = Str(<<"9","9","9">>)],
    [Base8949 EXCEPT ![1] = Undefined],
    [Base8949 EXCEPT ![1] = Num(0), ![2] = Str(<<"Z","E","R","O">>)],
    \* held 365 days, within one calendar year
    [Base8949 EXCEPT ![4] = Str(<<"2","0","2","4","-","1","2","-","3","1">>), ![7] = Str(<<"W">>), ![8] = Str(<<"-","2","0">>)],
    \* held 367 days, proceeds negative
    [Base8949 EXCEPT ![4] = Str(<<"2","0","2","5","-","0","1","-","0","2">>), ![6] = Num(-50)],
    \* dates as serials: 364 and 365 days
    [Base8949 EXCEPT ![3] = Num(SerialJan1), ![4] = Num(SerialJan1 + 364),
                     ![5] = Str(<<"$","1",",","2","0","0">>), ![6] = Str(<<"$","1",",","5","0","0">>)],
    [Base8949 EXCEPT ![3] = Num(SerialJan1), ![4] = Num(SerialJan1 + 365), ![2] = Num(7)],
    \* cells that are no dates
    [Base8949 EXCEPT ![3] = Str(<<"n","/","a">>), ![2] = Str(<<"B","A","D">>)],
    [Base8949 EXCEPT ![4] = Str(<<>>), ![2] = Str(<<"O","P","E","N">>)] }

Row8949(layout, record) ==
  AsSeq([i \in 1..Len(layout) |-> <<layout[i][1], record[layout[i][2]]>>])

\* Sheets of at most MaxRows records under the full layout and of at most
\* one record under the other layouts
Sheets8949 ==
  UNION {{AsSeq([i \in 1..Len(recs) |-> Row8949(layout, recs[i])]) :
            recs \in SeqsUpTo(Records8949, IF layout = FullLayout8949 THEN MaxRows ELSE 1)} :
         layout \in Layouts8949}

Names8949 == {<<"f","8","9","4","9">>, <<"F","8","9","4","9">>, <<"8","9","4","9">>}
Names1040 == {<<"f","1","0","4","0">>, <<"1","0","4","0">>, <<"F","1","0","4","0">>}
NamesOther == {<<"u","n","k","n","o","w","n","_","s","h","e","e","t">>, <<"S","h","e","e","t","1">>, <<>>, <<"f","8","9","4","9"," ">>, <<"1","0","4","0","0">>}

\* 1040 sheets: the key pairs of a row
Layouts1040 ==
  { <<<<"V","a","r","i","a","b","l","e">>, <<"V","a","l","u","e">>>>,             \* the sheet's header row named the columns
    <<<<"V","a","r","i","a","b","l","e"," ","N","a","m","e">>, <<"V","a","l","u","e"," ","A","m","o","u","n","t">>>>,
    <<<<"L","i","n","e"," ","1","a">>, <<"5","0","0","0">>>>,               \* the sheet had no header row
    <<<<"V","a","r","i","a","b","l","e">>>>,
    <<<<"V","A","L","U","E">>, <<"v","a","r","i","a","b","l","e">>>> }             \* the named columns the other way round

Records1040 ==
  { <<Str(<<"L","i","n","e"," ","1","a">>), Str(<<"5","0","0","0">>)>>,
    <<Str(<<"L","i","n","e"," ","1","b">>), Str(<<"7","0">>)>>,
    <<Str(<<"L","i","n","e"," ","1","a">>), Str(<<>>)>>,
    <<Str(<<>>), Str(<<"9">>)>>,
    <<Null, Str(<<>>)>>,
    <<Str(<<"B","o","g","u","s">>), Num(3)>> }

Sheets1040 ==
  {AsSeq([i \in 1..Len(recs) |-> MakeRow(layout, recs[i])]) :
     layout \in Layouts1040, recs \in SeqsUpTo(Records1040, MaxRows)}

\* Generated ledgers: n rows under the full layout; how row k (from 0) is
\* held and filled depends on the pattern
LedgerPatterns == {"short", "long", "third", "gaps"}

LedgerIsLong(pattern, k) ==
  CASE pattern = "short" -> FALSE
    [] pattern = "long" -> TRUE
    [] pattern = "third" -> k % 3 = 2
    [] pattern = "gaps" -> k % 7 = 3

LedgerRecord(pattern, k) ==
  << IF pattern = "gaps" /\ k % 5 = 1 THEN Str(<<>>) ELSE Num(k + 1),
     Str(<<"T">> \o NumberToString(k)),
     Num(SerialJan1 + (k % 4)),
     Num(SerialJan1 + (k % 4) + (IF LedgerIsLong(pattern, k) THEN 365 + (k % 2) ELSE 364 - (k % 3))),
     Num(50 + 3 * k),
     Num(IF k % 6 = 4 THEN -(10 + k) ELSE 100 + 7 * k),
     IF k % 4 = 2 THEN Str(<<"W">>) ELSE Str(<<>>),
     Num((k % 3) - 1) >>

Ledger(pattern, n) ==
  AsSeq([i \in 1..n |-> Row8949(FullLayout8949, LedgerRecord(pattern, i - 1))])

\* The arguments of a ParserRegistry.parse call
Call(sheetName, rows, options) ==
  [op |-> "parse", sheetName |-> sheetName, rows |-> rows, options |-> options]

\* The calls of the dispatcher: every name and option with the sheets of at
\* most one record, the canonical name with the longer sheets
Calls8949 ==
  {c \in {Call(sheetName, rows, options) :
            sheetName \in Names8949, rows \in Sheets8949, options \in OptionSets} :
     \/ Len(c.rows) <= 1
     \/ c.sheetName = <<"f","8","9","4","9">> /\ c.options.year = BaselineYear /\ c.options.skipEmptyRows}

Calls1040 ==
  {c \in {Call(sheetName, rows, options) :
            sheetName \in Names1040, rows \in Sheets1040, options \in OptionSets} :
     \/ Len(c.rows) <= 1
     \/ c.sheetName = <<"f","1","0","4","0">> /\ c.options.year = BaselineYear}

CallsOther ==
  {Call(sheetName, rows, options) :
     sheetName \in NamesOther,
     rows \in SeqsUpTo({Row8949(FullLayout8949, Base8949)}, 1)
              \cup SeqsUpTo({MakeRow(<<<<"V","a","r","i","a","b","l","e">>, <<"V","a","l","u","e">>>>, <<Str(<<"L","i","n","e"," ","1","a">>), Str(<<"5","0","0","0">>)>>)}, 1),
     options \in OptionSets}

CallsLedger ==
  {Call(<<"8","9","4","9">>, Ledger(pattern, n),
        [year |-> BaselineYear, validate |-> v, skipEmptyRows |-> TRUE]) :
     pattern \in LedgerPatterns \ {"long"}, n \in 0..MaxLedgerRows,
     v \in BOOLEAN}

Calls == Calls8949 \cup Calls1040 \cup CallsOther \cup CallsLedger

\* The transactions parseTransactions makes of a ledger
LedgerTransactions(pattern, n) ==
  IF n = 0 THEN <<>> ELSE parseTransactions(Ledger(pattern, n))

\* The arguments of chunkTransactions: the transactions of one class of a
\* ledger, as parse selects them, and the prefix of the class
ChunkInputs ==
  {[transactions |-> SelectShortTerm(LedgerTransactions(pattern, n)), typePrefix |-> <<"s","t">>] :
     pattern \in {"short", "third", "gaps"}, n \in 0..MaxLedgerRows}
  \cup
  {[transactions |-> SelectLongTerm(LedgerTransactions(pattern, n)), typePrefix |-> <<"l","t">>] :
     pattern \in {"long", "third"}, n \in 0..MaxLedgerRows}

\* The arguments of combineForms: the chunks of n short-term and of m
\* long-term transactions, for the row counts around the chunk boundaries
CombineRowCounts == {n \in 0..MaxLedgerRows : n % 7 <= 1}

ShortTermChunkings ==
  {chunkTransactions(LedgerTransactions("short", n), <<"s","t">>, getF8949Mapping(BaselineYear)) :
     n \in CombineRowCounts}

LongTermChunkings ==
  {chunkTransactions(LedgerTransactions("long", n), <<"l","t">>, getF8949Mapping(BaselineYear)) :
     n \in CombineRowCounts}

\* The cells a purchase or sale date is read from: the day as ISO text
\* or as an Excel serial
IsoDate(days) ==
  LET c == CivilFromDays(days)
  IN NumberToString(c.y) \o <<"-">> \o padStart2(NatToString(c.m))
       \o <<"-">> \o padStart2(NatToString(c.d))

PurchaseDays ==
  {DaysFromCivil(2023, 3, 1), DaysFromCivil(2024, 1, 1), DaysFromCivil(2024, 2, 29)}

DateCells(days) == {Str(IsoDate(days)), Num(ExcelEpochOffset + days)}

\* The sheets of a workbook: every name once, every cell a text
Sheet(name, rows) == [name |-> name, rows |-> rows, readFails |-> FALSE, error |-> <<>>]

TextRow8949(record) == Row8949(FullLayout8949, record)

WorkbookSheets ==
  { Sheet(<<"f","8","9","4","9">>, <<TextRow8949(Base8949)>>),
    Sheet(<<"F","8","9","4","9","b">>, <<TextRow8949(Base8949)>>),
    Sheet(<<"f","1","0","4","0">>, <<MakeRow(<<<<"V","a","r","i","a","b","l","e">>, <<"V","a","l","u","e">>>>, <<Str(<<"L","i","n","e"," ","1","a">>), Str(<<"5","0","0","0">>)>>)>>),
    \* no records
    Sheet(<<"N","o","t","e","s">>, <<>>),
    \* no column for the sell price
    Sheet(<<"8","9","4","9">>, <<MakeRow(<<<<"Q","u","a","n","t","i","t","y">>, <<"N","a","m","e">>, <<"P","u","r","c","h","a","s","e"," ","D","a","t","e">>, <<"S","e","l","l"," ","D","a","t","e">>,
                               <<"P","u","r","c","h","a","s","e"," ","P","r","i","c","e">>>>,
                             <<Str(<<"1","0">>), Str(<<"A","C","M","E">>), Str(<<"2","0","2","4","-","0","1","-","0","1">>),
                               Str(<<"2","0","2","4","-","1","2","-","3","0">>), Str(<<"1","0","0">>)>>)>>),
    \* no record with a quantity
    Sheet(<<"F","8","9","4","9">>, <<TextRow8949([Base8949 EXCEPT ![1] = Str(<<>>)])>>),
    \* no record with a variable
    Sheet(<<"1","0","4","0">>, <<MakeRow(<<<<"V","a","r","i","a","b","l","e">>, <<"V","a","l","u","e">>>>, <<Str(<<>>), Str(<<>>)>>)>>),
    \* fifteen records with a code, for two forms
    Sheet(<<"8","9","4","9">>, AsSeq([k \in 1..(MAX_ROWS_PER_FORM + 1) |->
                            TextRow8949([Base8949 EXCEPT ![2] = Str(<<"T">> \o NumberToString(k)),
                                                         ![7] = Str(<<"W">>)])])),
    [name |-> <<"C","h","a","r","t","1">>, rows |-> <<>>, readFails |-> TRUE, error |-> <<"B","a","d"," ","r","a","n","g","e">>] }

MaxSheets == 2        \* sheets of a workbook

\* The sequences over S of length at most n in which nothing occurs twice
DistinctSeqsUpTo(S, n) ==
  {s \in SeqsUpTo(S, n) : \A i, j \in 1..Len(s) : i # j => s[i] # s[j]}

\* The files: a workbook has no two sheets of one name
Files ==
  {[corrupt |-> FALSE, sheets |-> sheets] :
     sheets \in {s \in DistinctSeqsUpTo(WorkbookSheets, MaxSheets) :
                   \A i, j \in 1..Len(s) : i # j => s[i].name # s[j].name}}
  \cup {[corrupt |-> TRUE, sheets |-> <<>>]}

\* The options parseFile is called with: none, or those of processExcelFile
FileOptions ==
  {<<>>} \cup {[year |-> y, validate |-> v, skipEmptyRows |-> TRUE] :
                 y \in {BaselineYear, BaselineYear - 1}, v \in BOOLEAN}

----------------------------------------------------------------------------
(* The state machine: calls of the dispatcher and of the parser's steps *)

NoCall == [op |-> "none"]
NoResult == [op |-> "none"]

Init ==
  /\ pc = "idle"
  /\ call = NoCall
  /\ result = NoResult
  /\ app_formsData = <<>>
  /\ currentYear = InitialTaxYear
  /\ pending = <<>>
  /\ history = <<>>
  /\ downloadDisabled = TRUE
  /\ downloads = 0
  /\ timers = 0
  /\ clickError = "none"

\* ParserRegistry.parse(sheetName, rows, options)
CallParse ==
  /\ UNCHANGED appVars
  /\ UNCHANGED uiVars
  /\ pc = "idle"
  /\ \E c \in Calls :
       /\ pc' = "returned"
       /\ call' = c
       /\ result' = ParserRegistry_parse(c.sheetName, c.rows, c.options)

\* F8949Parser.chunkTransactions(transactions, typePrefix, mapping)
CallChunkTransactions ==
  /\ UNCHANGED appVars
  /\ UNCHANGED uiVars
  /\ pc = "idle"
  /\ \E input \in ChunkInputs :
       /\ pc' = "returned"
       /\ call' = [op |-> "chunkTransactions", transactions |-> input.transactions,
                   typePrefix |-> input.typePrefix, year |-> BaselineYear]
       /\ result' = chunkTransactions(input.transactions, input.typePrefix,
                                      getF8949Mapping(BaselineYear))

\* F8949Parser.combineForms(shortTermForms, longTermForms)
CallCombineForms ==
  /\ UNCHANGED appVars
  /\ UNCHANGED uiVars
  /\ pc = "idle"
  /\ \E shortTermForms \in ShortTermChunkings, longTermForms \in LongTermChunkings :
       /\ pc' = "returned"
       /\ call' = [op |-> "combineForms", shortTermForms |-> shortTermForms,
                   longTermForms |-> longTermForms]
       /\ result' = combineForms(shortTermForms, longTermForms)

\* F8949Parser.isShortTermGain(parseDate(purchase), parseDate(sale)), as
\* parseTransactions calls it on the two date cells of a row
CallIsShortTermGain ==
  /\ UNCHANGED appVars
  /\ UNCHANGED uiVars
  /\ pc = "idle"
  /\ \E days \in PurchaseDays, held \in 0..MaxHoldDays :
       \E purchase \in DateCells(days), sale \in DateCells(days + held) :
         /\ pc' = "returned"
         /\ call' = [op |-> "isShortTermGain", purchase |-> purchase, sale |-> sale,
                     days |-> days, held |-> held]
         /\ result' = isShortTermGain(parseDate(purchase), parseDate(sale))

\* ExcelParserService.parseFile(file, options)
CallParseFile ==
  /\ UNCHANGED appVars
  /\ UNCHANGED uiVars
  /\ pc = "idle"
  /\ \E file \in Files, options \in FileOptions :
       /\ pc' = "returned"
       /\ call' = [op |-> "parseFile", file |-> file, options |-> options]
       /\ result' = parseFile(file, options)

\* The caller has taken the result
Return ==
  /\ UNCHANGED appVars
  /\ UNCHANGED uiVars
  /\ pc = "returned"
  /\ pc' = "idle"
  /\ call' = NoCall
  /\ result' = NoResult

Next ==
  \/ CallParse
  \/ CallChunkTransactions
  \/ CallCombineForms
  \/ CallIsShortTermGain
  \/ Return

Spec == Init /\ [][Next]_vars

----------------------------------------------------------------------------
(* The state machine of the application *)

MaxPending == 2       \* processExcelFile calls that await parseFile at a time

\* What XLSX.read makes of a file, by its name: 8949 and 1040 sheets, a
\* 1040 sheet alone, and a file that cannot be read
Workbook(file) ==
  CASE file = "both.xlsx" ->
         [corrupt |-> FALSE,
          sheets |-> << Sheet(<<"f","8","9","4","9">>, <<TextRow8949(Base8949)>>),
                        Sheet(<<"f","1","0","4","0">>, <<MakeRow(<<<<"V","a","r","i","a","b","l","e">>, <<"V","a","l","u","e">>>>,
                                                  <<Str(<<"L","i","n","e"," ","1","a">>), Str(<<"5","0","0","0">>)>>)>>) >>]
    [] file = "wages.xlsx" ->
         [corrupt |-> FALSE,
          sheets |-> << Sheet(<<"1","0","4","0">>, <<MakeRow(<<<<"V","a","r","i","a","b","l","e">>, <<"V","a","l","u","e">>>>,
                                                 <<Str(<<"L","i","n","e"," ","1","b">>), Str(<<"7","0">>)>>)>>) >>]
    [] OTHER -> [corrupt |-> TRUE, sheets |-> <<>>]

\* setTaxYear(year)
SetTaxYear ==
  /\ \E year \in {BaselineYear, BaselineYear - 1} : currentYear' = year
  /\ UNCHANGED <<app_formsData, pending, history>>
  /\ UNCHANGED callVars
  /\ UNCHANGED uiVars

\* processExcelFile(file, options) up to `await excelParser.parseFile`,
\* for one of three files, without options or with the tax year
ProcessExcelFile ==
  /\ Len(pending) < MaxPending
  /\ \E file \in {"both.xlsx", "wages.xlsx", "broken.xlsx"},
        options \in {<<>>, [taxYear |-> BaselineYear - 1]} :
       pending' = Append(pending, Awaiting(file, options, currentYear))
  /\ UNCHANGED <<app_formsData, currentYear, history>>
  /\ UNCHANGED callVars
  /\ UNCHANGED uiVars

\* The rest of a processExcelFile call, with what parseFile gave it
Resume(i, parsed) ==
  /\ app_formsData' = StoreFormsData(app_formsData, parsed)
  /\ history' = Completed(history, pending[i], parsed, app_formsData)
  /\ pending' = RemoveAt(pending, i)

\* parseFile settles for one of the waiting calls, which then runs to its
\* end
ParseFileSettles ==
  /\ \E i \in 1..Len(pending) :
       Resume(i, parseFile(Workbook(pending[i].file), ParseFileOptions(pending[i])))
  /\ UNCHANGED currentYear
  /\ UNCHANGED callVars
  /\ UNCHANGED uiVars

\* clear()
Clear ==
  /\ app_formsData' = <<>>
  /\ history' = <<>>
  /\ UNCHANGED <<currentYear, pending>>
  /\ UNCHANGED callVars
  /\ UNCHANGED uiVars

\* The calls of the Excel parsing service alone
NextFile ==
  \/ CallParseFile
  \/ Return

SpecFile == Init /\ [][NextFile]_vars

\* The operations of the application alone
NextApp ==
  \/ SetTaxYear
  \/ ProcessExcelFile
  \/ ParseFileSettles
  \/ Clear

SpecApp == Init /\ [][NextApp]_vars

----------------------------------------------------------------------------
(* The state machine of the page: the handlers of the entry point *)

MaxDownloads == 2     \* clicks whose download or re-enable timer is not over

\* xlsxInput change, up to `await app.processExcelFile`: the year is the
\* one the select shows, which is the year of the application
XlsxInputChange ==
  /\ Len(pending) < MaxPending
  /\ \E file \in {"both.xlsx", "wages.xlsx", "broken.xlsx"} :
       pending' = Append(pending,
                         Awaiting(file, [taxYear |-> currentYear, validate |-> TRUE],
                                  currentYear))
  /\ downloadDisabled' = TRUE
  /\ UNCHANGED <<app_formsData, currentYear, history, downloads, timers, clickError>>
  /\ UNCHANGED callVars

\* processExcelFile of one of the waiting handlers ends, and the handler
\* with it (lines 76-93): the catch block when parseFile was rejected,
\* which it is for a file XLSX.read cannot read; else the button is enabled
\* if app.getFormsData() has a form
UploadSettles ==
  /\ \E i \in 1..Len(pending) :
       /\ Resume(i, parseFile(Workbook(pending[i].file), ParseFileOptions(pending[i])))
       /\ downloadDisabled' = (Workbook(pending[i].file).corrupt \/ Len(app_formsData') = 0)
  /\ UNCHANGED <<currentYear, downloads, timers, clickError>>
  /\ UNCHANGED callVars

\* downloadBtn click, up to the await inside downloadFilledPdfs: without
\* forms downloadFilledPdfs throws and the catch block enables the button
DownloadClick ==
  /\ ~downloadDisabled
  /\ IF Len(app_formsData) = 0
       THEN /\ clickError' = "No forms data available"
            /\ downloadDisabled' = FALSE
            /\ UNCHANGED downloads
       ELSE /\ downloads + timers < MaxDownloads
            /\ clickError' = "none"
            /\ downloadDisabled' = TRUE
            /\ downloads' = downloads + 1
  /\ UNCHANGED timers
  /\ UNCHANGED appVars
  /\ UNCHANGED callVars

\* downloadFilledPdfs of a waiting click handler ends: the timer is set, or
\* the files could not be made and the catch block enables the button
DownloadSettles ==
  /\ downloads > 0
  /\ downloads' = downloads - 1
  /\ \E made \in BOOLEAN :
       IF made THEN timers' = timers + 1 /\ UNCHANGED downloadDisabled
       ELSE downloadDisabled' = FALSE /\ UNCHANGED timers
  /\ UNCHANGED clickError
  /\ UNCHANGED appVars
  /\ UNCHANGED callVars

\* The callback of setTimeout(..., 2000)
ReenableTimer ==
  /\ timers > 0
  /\ timers' = timers - 1
  /\ downloadDisabled' = FALSE
  /\ UNCHANGED <<downloads, clickError>>
  /\ UNCHANGED appVars
  /\ UNCHANGED callVars

\* yearSelect change: setTaxYear, clear, and the button is disabled
YearSelectChange ==
  /\ \E year \in {BaselineYear, BaselineYear - 1} : currentYear' = year
  /\ app_formsData' = <<>>
  /\ history' = <<>>
  /\ downloadDisabled' = TRUE
  /\ UNCHANGED <<pending, downloads, timers, clickError>>
  /\ UNCHANGED callVars

NextUI ==
  \/ XlsxInputChange
  \/ UploadSettles
  \/ DownloadClick
  \/ DownloadSettles
  \/ ReenableTimer
  \/ YearSelectChange

SpecUI == Init /\ [][NextUI]_vars
----------------------------------------------------------------------------
(* Properties *)

\* C1: of n transactions of one class, chunkTransactions makes ceil(n/14)
\* chunks (none of none); every chunk but the last holds the rows of
\* exactly 14 transactions and the last the remaining 1..14, in order: row
\* idx of chunk c describes transaction 14 (c - 1) + idx + 1, and the chunk
\* has no row beyond its size.
C1_ChunkCountAndSizes ==
  (pc = "returned" /\ call.op = "chunkTransactions") =>
    LET n == Len(call.transactions)
        mapping == getF8949Mapping(call.year)
        count == (n + 13) \div 14
        Size(c) == IF c < count THEN 14 ELSE n - 14 * (count - 1)
        Described(t) == Str(NumberToString(t.quantity) \o <<" ","s","h","."," ">> \o t.name)
        RowKey(idx) == CellKey(mapping, call.typePrefix, idx, 0)
    IN /\ Len(result) = count
       /\ \A c \in 1..count :
            /\ Size(c) \in 1..14
            /\ \A idx \in 0..13 :
                 IF idx < Size(c)
                   THEN ObjGet(result[c], RowKey(idx))
                          = Described(call.transactions[14 * (c - 1) + idx + 1])
                   ELSE ~ObjHas(result[c], RowKey(idx))

\* C1, witness: 20 transactions went into two chunks of 14 and of 6 rows
C1_Witness ==
  /\ pc = "returned" /\ call.op = "chunkTransactions"
  /\ Len(call.transactions) = 20
  /\ Len(result) = 2
  /\ LET mapping == getF8949Mapping(call.year)
     IN /\ ObjHas(result[1], CellKey(mapping, call.typePrefix, 13, 0))
        /\ ObjHas(result[2], CellKey(mapping, call.typePrefix, 5, 0))
        /\ ~ObjHas(result[2], CellKey(mapping, call.typePrefix, 6, 0))

C3_CombineForms ==
  (pc = "returned" /\ call.op = "combineForms") =>
    LET S == call.shortTermForms
        L == call.longTermForms
        total == IF Len(S) >= Len(L) THEN Len(S) ELSE Len(L)
        Part(forms, i) == IF i <= Len(forms) THEN forms[i] ELSE <<>>
    IN /\ Len(result) = total
       /\ \A i \in 1..total :
            LET instance == result[i][2]
                short == Part(S, i)
                long == Part(L, i)
            IN /\ result[i][1] = <<"f","8","9","4","9","_">> \o NumberToString(i)
               /\ \A k \in 1..Len(long) : ObjGet(instance, long[k][1]) = long[k][2]
               /\ \A k \in 1..Len(short) :
                    ObjHas(instance, short[k][1])
                    /\ (~ObjHas(long, short[k][1])
                          => ObjGet(instance, short[k][1]) = short[k][2])
               /\ \A k \in 1..Len(instance) :
                    ObjHas(short, instance[k][1]) \/ ObjHas(long, instance[k][1])
               /\ Len(instance) =
                    Cardinality({short[k][1] : k \in 1..Len(short)}
                                \cup {long[k][1] : k \in 1..Len(long)})

\* C3, witness: two short-term chunks and one long-term chunk gave two
\* instances; the first holds entries of both, the second only short-term
\* entries
C3_Witness ==
  /\ pc = "returned" /\ call.op = "combineForms"
  /\ Len(call.shortTermForms) = 2 /\ Len(call.longTermForms) = 1
  /\ Len(result) = 2
  /\ result[1][1] = <<"f","8","9","4","9","_","1">> /\ result[2][1] = <<"f","8","9","4","9","_","2">>
  /\ \E k \in 1..Len(result[1][2]) : ObjHas(call.shortTermForms[1], result[1][2][k][1])
  /\ \E k \in 1..Len(result[1][2]) : ObjHas(call.longTermForms[1], result[1][2][k][1])
  /\ result[2][2] = call.shortTermForms[2]
  /\ \A k \in 1..Len(result[2][2]) : ~ObjHas(call.longTermForms[1], result[2][2][k][1])

\* C4: a purchase and a sale a whole number of days apart are short-term
\* exactly when the difference of the two dates is less than 365 days of
\* 86400 seconds (365 x 86400000 ms); 364 days are short-term, 365 and 367
\* days long-term, whether or not a leap day falls between the dates.
C4_ShortTermIffUnder365Days ==
  (pc = "returned" /\ call.op = "isShortTermGain") =>
    /\ result <=> (call.held * 86400 < 365 * 86400)
    /\ call.held = 364 => result
    /\ call.held \in {365, 367} => ~result

\* C4, witness: bought 2024-01-01 and sold 2024-12-31, 365 days later in
\* the same (leap) year, is long-term
C4_Witness ==
  /\ pc = "returned" /\ call.op = "isShortTermGain"
  /\ call.purchase = Str(<<"2","0","2","4","-","0","1","-","0","1">>)
  /\ call.sale = Str(<<"2","0","2","4","-","1","2","-","3","1">>)
  /\ call.held = 365
  /\ result = FALSE

\* C5: ParserRegistry.parse answers with the 8949 parser's result exactly
\* for the sheet names that are f8949 or 8949 in lower case (F8949 among
\* them) and with the 1040 parser's result exactly for those that are f1040
\* or 1040; for every other name it returns no form id, an empty formsData
\* and a validation that is not valid, with one error of field sheet whose
\* message names the sheet, and no warning.
C5_DispatchBySheetName ==
  (pc = "returned" /\ call.op = "parse") =>
    LET lower == toLowerCase(call.sheetName)
        noParser ==
          /\ result.formIds = <<>>
          /\ result.formsData = <<>>
          /\ ~result.validation.isValid
          /\ Len(result.validation.errors) = 1
          /\ result.validation.errors[1].field = <<"s","h","e","e","t">>
          /\ result.validation.errors[1].message
               = <<"N","o"," ","p","a","r","s","e","r"," ","f","o","u","n","d"," ","f","o","r"," ","s","h","e","e","t",":"," ">> \o call.sheetName
          /\ result.validation.warnings = <<>>
    IN CASE lower \in {<<"f","8","9","4","9">>, <<"8","9","4","9">>} ->
              /\ result = F8949Parser_parse(call.rows, call.options)
              /\ \A i \in 1..Len(result.formIds) :
                   result.formIds[i] = <<"f","8","9","4","9","_">> \o NumberToString(i)
              /\ ~noParser
         [] lower \in {<<"f","1","0","4","0">>, <<"1","0","4","0">>} ->
              /\ result = F1040Parser_parse(call.rows, call.options)
              /\ \A i \in 1..Len(result.formIds) : result.formIds[i] = <<"f","1","0","4","0">>
              /\ ~noParser
         [] OTHER -> noParser

\* C5, witness: the sheet unknown_sheet, with a record, was answered with
\* the one error that names it
C5_Witness ==
  /\ pc = "returned" /\ call.op = "parse"
  /\ call.sheetName = <<"u","n","k","n","o","w","n","_","s","h","e","e","t">>
  /\ Len(call.rows) = 1
  /\ result.formIds = <<>>
  /\ Len(result.validation.errors) = 1
  /\ result.validation.errors[1].message = <<"N","o"," ","p","a","r","s","e","r"," ","f","o","u","n","d"," ","f","o","r"," ","s","h","e","e","t",":"," ","u","n","k","n","o","w","n","_","s","h","e","e","t">>

\* C6: when the sheet of a matched parser gives no transaction (8949) or
\* has no record with a cell that is not empty (1040), the result has no
\* form id, is not valid and carries an error; and no result of a matched
\* parser is valid while one of its instances has an empty field map.
C6_NoFormsWithoutRecords ==
  (pc = "returned" /\ call.op = "parse") =>
    LET lower == toLowerCase(call.sheetName)
        is8949 == lower \in {<<"f","8","9","4","9">>, <<"8","9","4","9">>}
        is1040 == lower \in {<<"f","1","0","4","0">>, <<"1","0","4","0">>}
        noTransactions == Len(call.rows) = 0 \/ parseTransactions(call.rows) = <<>>
        noRecords == \A r \in 1..Len(call.rows) :
                       \A k \in 1..Len(call.rows[r]) : isEmpty(call.rows[r][k][2])
        rejected == /\ result.formIds = <<>>
                    /\ ~result.validation.isValid
                    /\ Len(result.validation.errors) >= 1
        emptyButValid == /\ result.validation.isValid
                         /\ \E i \in 1..Len(result.formsData) :
                              result.formsData[i][2] = <<>>
    IN /\ (is8949 /\ noTransactions) => rejected
       /\ (is1040 /\ noRecords) => rejected
       /\ (is8949 \/ is1040) => ~emptyButValid

\* C6, the case that fails: a 1040 sheet whose only record has two empty
\* cells, parsed without validation, gave the form f1040 with an empty
\* field map and a valid result without errors
C6_Witness ==
  /\ pc = "returned" /\ call.op = "parse"
  /\ call.sheetName = <<"f","1","0","4","0">>
  /\ call.rows = << << <<<<"V","a","r","i","a","b","l","e">>, Null>>, <<<<"V","a","l","u","e">>, Str(<<>>)>> >> >>
  /\ ~call.options.validate
  /\ result.formIds = <<<<"f","1","0","4","0">>>>
  /\ result.formsData = << <<<<"f","1","0","4","0">>, <<>> >> >>
  /\ result.validation.isValid
  /\ result.validation.errors = <<>>

\* C7: the same call with validate the other way round returns the same
\* form ids and the same formsData: the validator adds, removes and changes
\* no entry of a field map.
C7_ValidateLeavesFormsAlone ==
  (pc = "returned" /\ call.op = "parse") =>
    LET other == ParserRegistry_parse(call.sheetName, call.rows,
                                      [call.options EXCEPT !.validate = ~@])
    IN /\ result.formIds = other.formIds
       /\ result.formsData = other.formsData

\* C7, witness: a validated 8949 sheet with two instances, one of them
\* with a negative amount
C7_Witness ==
  /\ pc = "returned" /\ call.op = "parse"
  /\ call.options.validate
  /\ Len(result.formIds) = 2
  /\ \E i \in 1..Len(result.formsData) :
       \E k \in 1..Len(result.formsData[i][2]) :
         /\ result.formsData[i][2][k][2].t = "number"
         /\ result.formsData[i][2][k][2].n < 0

\* C8: in a 1040 sheet whose records are scanned, by either extraction:
\* with skipEmptyRows, every record with a variable that is not empty and
\* is mapped, and a value that is not empty, has its field in the field
\* map, also when a record with an empty variable comes before it; without
\* skipEmptyRows, the field map holds the fields of the records before the
\* first empty variable and no other.
C8_SkipEmptyRows ==
  (/\ pc = "returned" /\ call.op = "parse"
   /\ toLowerCase(call.sheetName) \in {<<"f","1","0","4","0">>, <<"1","0","4","0">>}
   /\ Len(call.rows) > 0) =>
    LET mapping == getF1040Mapping(call.options.year)
        firstRow == call.rows[1]
        labeled == UsesColumnFormat(firstRow)
        dataRows == IF looksLikeHeader(firstRow) THEN Tail(call.rows) ELSE call.rows
        headers == ObjKeys(dataRows[1])
        variableHeader == FindHeaderWith(headers, <<<<"v","a","r","i","a","b","l","e">>, <<"f","i","e","l","d">>, <<"l","i","n","e">>>>)
        valueHeader == FindHeaderWith(headers, <<<<"v","a","l","u","e">>, <<"a","m","o","u","n","t">>>>)
        scanned == /\ Len(dataRows) > 0
                   /\ IF labeled THEN FoundTruthy(variableHeader) /\ FoundTruthy(valueHeader)
                                 ELSE Len(headers) >= 2
        variableCol == IF labeled THEN variableHeader.col ELSE headers[1]
        valueCol == IF labeled THEN valueHeader.col ELSE headers[2]
        Variable(j) == ObjGet(dataRows[j], variableCol)
        Value(j) == ObjGet(dataRows[j], valueCol)
        Mapped(j) == MappingGet(mapping, StringOf(Variable(j)))
        Contributes(j) == ~isEmpty(Variable(j)) /\ Truthy(Mapped(j)) /\ ~isEmpty(Value(j))
        BeforeFirstEmpty(j) == \A e \in 1..j : ~isEmpty(Variable(e))
        fields == result.formsData[1][2]
    IN scanned =>
         IF call.options.skipEmptyRows
           THEN \A j \in 1..Len(dataRows) :
                  Contributes(j) => ObjHas(fields, PropertyKey(Mapped(j)))
           ELSE /\ \A j \in 1..Len(dataRows) :
                     (BeforeFirstEmpty(j) /\ Contributes(j))
                       => ObjHas(fields, PropertyKey(Mapped(j)))
                /\ \A k \in 1..Len(fields) :
                     \E j \in 1..Len(dataRows) :
                       /\ BeforeFirstEmpty(j) /\ Contributes(j)
                       /\ PropertyKey(Mapped(j)) = fields[k][1]

\* C8, the case that fails: under the keys Variable and Value, a record
\* with an empty variable and then the record Line 1a = 5000, parsed with
\* skipEmptyRows, gave an empty field map
C8_Witness ==
  /\ pc = "returned" /\ call.op = "parse"
  /\ call.sheetName = <<"f","1","0","4","0">>
  /\ call.options.skipEmptyRows
  /\ call.rows = << << <<<<"V","a","r","i","a","b","l","e">>, Str(<<>>)>>, <<<<"V","a","l","u","e">>, Str(<<"9">>)>> >>,
                    << <<<<"V","a","r","i","a","b","l","e">>, Str(<<"L","i","n","e"," ","1","a">>)>>, <<<<"V","a","l","u","e">>, Str(<<"5","0","0","0">>)>> >> >>
  /\ result.formIds = <<<<"f","1","0","4","0">>>>
  /\ result.formsData = << <<<<"f","1","0","4","0">>, <<>> >> >>

\* C9: in an 8949 sheet whose columns are detected, the rows written to
\* the forms, short-term and long-term together, are as many as the
\* records with a non-empty quantity whose purchase date and sell date
\* both convert to a date: a record with a date cell that does not convert
\* gives no row, and when some record does convert the sheet gives forms.
C9_UnconvertibleDateDropped ==
  (/\ pc = "returned" /\ call.op = "parse"
   /\ toLowerCase(call.sheetName) \in {<<"f","8","9","4","9">>, <<"8","9","4","9">>}
   /\ Len(call.rows) > 0
   /\ detectColumns(call.rows[1]).ok) =>
    LET columnMap == detectColumns(call.rows[1]).columnMap
        mapping == getF8949Mapping(call.options.year)
        Convertible(row) ==
          /\ parseDate(RowCell(row, columnMap, "purchaseDate")).valid
          /\ parseDate(RowCell(row, columnMap, "sellDate")).valid
        good == {i \in 1..Len(call.rows) :
                   /\ ~isEmpty(RowCell(call.rows[i], columnMap, "quantity"))
                   /\ Convertible(call.rows[i])}
        written == {w \in (1..Len(result.formsData)) \X {<<"s","t">>, <<"l","t">>} \X (0..13) :
                      ObjHas(result.formsData[w[1]][2], CellKey(mapping, w[2], w[3], 0))}
    IN /\ Cardinality(written) = Cardinality(good)
       /\ good # {} => Len(result.formIds) > 0

\* C9, the case that fails: the only record of the sheet has the purchase
\* date "n/a" and came out as the first long-term row of form f8949_1
C9_Witness ==
  /\ pc = "returned" /\ call.op = "parse"
  /\ call.sheetName = <<"f","8","9","4","9">>
  /\ Len(call.rows) = 1
  /\ detectColumns(call.rows[1]).ok
  /\ RowCell(call.rows[1], detectColumns(call.rows[1]).columnMap, "purchaseDate") = Str(<<"n","/","a">>)
  /\ ~parseDate(Str(<<"n","/","a">>)).valid
  /\ result.formIds = <<<<"f","8","9","4","9","_","1">>>>
  /\ LET mapping == getF8949Mapping(call.options.year)
         form == result.formsData[1][2]
     IN /\ ObjGet(form, CellKey(mapping, <<"l","t">>, 0, 1)) = Str(<<"n","/","a">>)
        /\ ObjGet(form, CellKey(mapping, <<"l","t">>, 0, 0)) = Str(<<"1","0"," ","s","h","."," ","B","A","D">>)
        /\ ~ObjHas(form, CellKey(mapping, <<"s","t">>, 0, 0))

\* C10: in an 8949 sheet whose columns are detected, the records whose
\* quantity cell is null, undefined or the empty string give no row,
\* wherever they stand, the first record included: the rows written are as
\* many as the other records (a quantity of 0 counts among these), with no
\* such record left the sheet is rejected for having no valid
\* transactions, and otherwise the result is the one of the sheet without
\* the records of empty quantity.
C10_EmptyQuantitySkipped ==
  (/\ pc = "returned" /\ call.op = "parse"
   /\ toLowerCase(call.sheetName) \in {<<"f","8","9","4","9">>, <<"8","9","4","9">>}
   /\ Len(call.rows) > 0
   /\ detectColumns(call.rows[1]).ok) =>
    LET columnMap == detectColumns(call.rows[1]).columnMap
        mapping == getF8949Mapping(call.options.year)
        EmptyQuantity(row) ==
          RowCell(row, columnMap, "quantity") \in {Null, Undefined, Str(<<>>)}
        others == SelectSeq(call.rows, LAMBDA row : ~EmptyQuantity(row))
        rowsWritten == {w \in (1..Len(result.formsData)) \X {<<"s","t">>, <<"l","t">>} \X (0..13) :
                          ObjHas(result.formsData[w[1]][2], CellKey(mapping, w[2], w[3], 0))}
    IN /\ Cardinality(rowsWritten) = Len(others)
       /\ IF others = <<>>
            THEN /\ result.formIds = <<>>
                 /\ result.formsData = <<>>
                 /\ ~result.validation.isValid
                 /\ Len(result.validation.errors) = 1
                 /\ result.validation.errors[1].field = <<"d","a","t","a">>
                 /\ result.validation.errors[1].message = <<"N","o"," ","v","a","l","i","d"," ","t","r","a","n","s","a","c","t","i","o","n","s"," ","f","o","u","n","d">>
            ELSE result = F8949Parser_parse(others, call.options)

\* C10, witness: the first record has a null quantity and the second the
\* quantity 0; the sheet gave one short-term row, the one of the second
\* record
C10_Witness ==
  /\ pc = "returned" /\ call.op = "parse"
  /\ call.sheetName = <<"f","8","9","4","9">>
  /\ Len(call.rows) = 2
  /\ detectColumns(call.rows[1]).ok
  /\ LET columnMap == detectColumns(call.rows[1]).columnMap
         mapping == getF8949Mapping(call.options.year)
     IN /\ RowCell(call.rows[1], columnMap, "quantity") = Null
        /\ RowCell(call.rows[2], columnMap, "quantity") = Num(0)
        /\ result.formIds = <<<<"f","8","9","4","9","_","1">>>>
        /\ ObjGet(result.formsData[1][2], CellKey(mapping, <<"s","t">>, 0, 0)) = Str(<<"0"," ","s","h","."," ","Z","E","R","O">>)
        /\ ~ObjHas(result.formsData[1][2], CellKey(mapping, <<"s","t">>, 1, 0))
        /\ ~ObjHas(result.formsData[1][2], CellKey(mapping, <<"l","t">>, 0, 0))

\* C11: on an 8949 sheet with records, the columns are detected exactly
\* when each of the six required roles has a synonym that contains, or is
\* contained in, the lower-cased trimmed text of some header of the first
\* record, whether or not code and adjustment have one; without detection
\* the sheet gives no form and the one error of having no valid
\* transactions, and with detection a record of non-empty quantity gives
\* forms.
C11_DetectionNeedsRequiredRoles ==
  (/\ pc = "returned" /\ call.op = "parse"
   /\ toLowerCase(call.sheetName) \in {<<"f","8","9","4","9">>, <<"8","9","4","9">>}
   /\ Len(call.rows) > 0) =>
    LET headers == ObjKeys(call.rows[1])
        Matched(role) ==
          \E h \in 1..Len(headers) : \E p \in 1..Len(EXPECTED_HEADERS(role)) :
            LET text == trim(toLowerCase(headers[h]))
                synonym == EXPECTED_HEADERS(role)[p]
            IN includes(text, synonym) \/ includes(synonym, text)
        allRequired == \A role \in {"quantity", "name", "purchaseDate", "sellDate",
                                    "purchasePrice", "sellPrice"} : Matched(role)
        detected == detectColumns(call.rows[1])
    IN /\ detected.ok <=> allRequired
       /\ ~allRequired =>
            /\ parseTransactions(call.rows) = <<>>
            /\ result.formIds = <<>>
            /\ result.formsData = <<>>
            /\ ~result.validation.isValid
            /\ Len(result.validation.errors) = 1
            /\ result.validation.errors[1].message = <<"N","o"," ","v","a","l","i","d"," ","t","r","a","n","s","a","c","t","i","o","n","s"," ","f","o","u","n","d">>
       /\ (/\ allRequired
           /\ \E i \in 1..Len(call.rows) : \E c \in 1..Len(call.rows[i]) :
                /\ "quantity" \in DOMAIN detected.columnMap
                /\ call.rows[i][c][1] = detected.columnMap["quantity"]
                /\ ~isEmpty(call.rows[i][c][2]))
            => Len(result.formIds) > 0

\* C11, the case that fails: the first header of the sheet is the empty
\* text and the six required roles have their headers after it; the
\* record of quantity 10 was rejected with the sheet
C11_Witness ==
  /\ pc = "returned" /\ call.op = "parse"
  /\ call.sheetName = <<"f","8","9","4","9">>
  /\ Len(call.rows) = 1
  /\ ObjKeys(call.rows[1]) = <<<<>>, <<"Q","u","a","n","t","i","t","y">>, <<"N","a","m","e">>, <<"P","u","r","c","h","a","s","e"," ","D","a","t","e">>, <<"S","e","l","l"," ","D","a","t","e">>,
                               <<"P","u","r","c","h","a","s","e"," ","P","r","i","c","e">>, <<"S","e","l","l"," ","P","r","i","c","e">>>>
  /\ ObjGet(call.rows[1], <<"Q","u","a","n","t","i","t","y">>) = Str(<<"1","0">>)
  /\ ~detectColumns(call.rows[1]).ok
  /\ result.formIds = <<>>
  /\ ~result.validation.isValid
  /\ result.validation.errors[1].message = <<"N","o"," ","v","a","l","i","d"," ","t","r","a","n","s","a","c","t","i","o","n","s"," ","f","o","u","n","d">>

\* C12: in the result of parseFile, for every sheet of the workbook that
\* cannot be parsed (reading it throws, no parser takes its name, its
\* columns are not detected, or it has no usable record), the forms are
\* those of the workbook without that sheet, so the sheet gives no form
\* and changes none of the other sheets, and the errors are more than
\* those of the workbook without it.
C12_UnparseableSheetIsolated ==
  (pc = "returned" /\ call.op = "parseFile" /\ ~call.file.corrupt) =>
    LET sheets == call.file.sheets
        options == DefaultOptions(call.options)
        Is8949(sheet) == toLowerCase(sheet.name) \in {<<"f","8","9","4","9">>, <<"8","9","4","9">>}
        Is1040(sheet) == toLowerCase(sheet.name) \in {<<"f","1","0","4","0">>, <<"1","0","4","0">>}
        NoTransaction(sheet) ==
          \/ sheet.rows = <<>>
          \/ ~detectColumns(sheet.rows[1]).ok
          \/ \A i \in 1..Len(sheet.rows) :
               isEmpty(RowCell(sheet.rows[i], detectColumns(sheet.rows[1]).columnMap,
                               "quantity"))
        NoField(sheet) ==
          \A i \in 1..Len(sheet.rows) : \A c \in 1..Len(sheet.rows[i]) :
            isEmpty(sheet.rows[i][c][2])
        Unparseable(sheet) ==
          \/ sheet.readFails
          \/ ~Is8949(sheet) /\ ~Is1040(sheet)
          \/ Is8949(sheet) /\ NoTransaction(sheet)
          \/ Is1040(sheet) /\ NoField(sheet)
        Without(i) == [corrupt |-> FALSE,
                       sheets |-> SubSeq(sheets, 1, i - 1) \o SubSeq(sheets, i + 1, Len(sheets))]
    IN \A i \in 1..Len(sheets) :
         Unparseable(sheets[i]) =>
           LET rest == parseFile(Without(i), call.options)
           IN /\ result.formsData = rest.formsData
              /\ Len(result.validation.errors) > Len(rest.validation.errors)

\* C12, the case that fails: a workbook of the one sheet 1040 whose record
\* has an empty variable and an empty value, parsed with validation,
\* gave the form f1040, with no field
C12_Witness ==
  /\ pc = "returned" /\ call.op = "parseFile"
  /\ call.options = <<>>
  /\ Len(call.file.sheets) = 1
  /\ call.file.sheets[1].name = <<"1","0","4","0">>
  /\ call.file.sheets[1].rows
       = << << <<<<"V","a","r","i","a","b","l","e">>, Str(<<>>)>>, <<<<"V","a","l","u","e">>, Str(<<>>)>> >> >>
  /\ result.formsData = << <<<<"f","1","0","4","0">>, <<>> >> >>
  /\ result.sheetsProcessed = <<<<"1","0","4","0">>>>
  /\ result.sheetsFailed = <<>>

\* C13: when a dispatched sheet gives at least one form: without
\* validation the returned validation is valid and has no errors and no
\* warnings; with validation it is what the validator of the sheet's form
\* type gives for the forms returned.
C13_ValidationOnRequest ==
  (/\ pc = "returned" /\ call.op = "parse"
   /\ Len(result.formIds) > 0) =>
    LET is8949 == toLowerCase(call.sheetName) \in {<<"f","8","9","4","9">>, <<"8","9","4","9">>}
        validator == IF is8949 THEN F8949Parser_validate(result.formsData)
                               ELSE F1040Parser_validate(result.formsData)
    IN IF call.options.validate
         THEN result.validation = validator.validation
         ELSE /\ result.validation.isValid
              /\ result.validation.errors = <<>>
              /\ result.validation.warnings = <<>>

\* C13, witness: a 1040 sheet without the required field, parsed without
\* validation, came back valid and without the warning its validator gives
C13_Witness ==
  /\ pc = "returned" /\ call.op = "parse"
  /\ call.sheetName = <<"f","1","0","4","0">>
  /\ ~call.options.validate
  /\ result.formIds = <<<<"f","1","0","4","0">>>>
  /\ Len(result.formsData[1][2]) > 0
  /\ result.validation.isValid
  /\ result.validation.warnings = <<>>
  /\ Len(F1040Parser_validate(result.formsData).validation.warnings) = 1

\* C14: in the 8949 mapping table no physical field of a key that begins
\* with st_ is the physical field of a key that begins with lt_; so the
\* short-term and the long-term chunk that combineForms joins have no key
\* in common, joining them in either order gives the same entries, and the
\* instance holds every entry of both with its value.
C14_ShortAndLongFieldsDisjoint ==
  (pc = "returned" /\ call.op = "combineForms") =>
    LET mapping == getF8949Mapping(BaselineYear)
        Under(prefix) == {k \in DOMAIN mapping : Len(k) >= 3 /\ SubSeq(k, 1, 3) = prefix}
        Fields(prefix) == {mapping[k] : k \in Under(prefix)}
        Entries(o) == {o[k] : k \in 1..Len(o)}
        Keys(o) == {o[k][1] : k \in 1..Len(o)}
        total == Len(result)
    IN /\ Under(<<"s","t","_">>) # {} /\ Under(<<"l","t","_">>) # {}
       /\ Fields(<<"s","t","_">>) \cap Fields(<<"l","t","_">>) = {}
       /\ \A i \in 0..(total - 1) :
            LET A == FormAt(call.shortTermForms, i)
                B == FormAt(call.longTermForms, i)
            IN /\ Keys(A) \cap Keys(B) = {}
               /\ Entries(ObjAssign(A, B)) = Entries(ObjAssign(B, A))
               /\ Entries(result[i + 1][2]) = Entries(A) \cup Entries(B)

\* C14, witness: a short-term chunk and a long-term chunk were joined into
\* an instance that has as many entries as the two chunks together
C14_Witness ==
  /\ pc = "returned" /\ call.op = "combineForms"
  /\ Len(call.shortTermForms) >= 1 /\ Len(call.longTermForms) >= 1
  /\ Len(call.shortTermForms[1]) > 4 /\ Len(call.longTermForms[1]) > 4
  /\ Len(result[1][2]) = Len(call.shortTermForms[1]) + Len(call.longTermForms[1])

\* C15: when an 8949 sheet is parsed with validation, every proceeds cell
\* (column 3 of a row) that holds a negative number has a warning
\* 'Negative proceeds amount detected' whose field is the form id, a dot
\* and the cell's field; the validation stays valid.
C15_NegativeProceedsWarned ==
  (/\ pc = "returned" /\ call.op = "parse"
   /\ toLowerCase(call.sheetName) \in {<<"f","8","9","4","9">>, <<"8","9","4","9">>}
   /\ call.options.validate
   /\ Len(result.formIds) > 0) =>
    LET mapping == getF8949Mapping(call.options.year)
        warnings == result.validation.warnings
    IN /\ result.validation.isValid
       /\ \A f \in 1..Len(result.formsData) : \A p \in {<<"s","t">>, <<"l","t">>} : \A idx \in 0..13 :
            LET cell == CellKey(mapping, p, idx, 3)
                proceeds == ObjGet(result.formsData[f][2], cell)
            IN (proceeds.t = "number" /\ proceeds.n < 0) =>
                 \E w \in 1..Len(warnings) :
                   /\ warnings[w].message = <<"N","e","g","a","t","i","v","e"," ","p","r","o","c","e","e","d","s"," ","a","m","o","u","n","t"," ","d","e","t","e","c","t","e","d">>
                   /\ warnings[w].field = result.formsData[f][1] \o <<".">> \o cell

\* C15, the case that fails: the record sold for -50 stands in the first
\* long-term row of f8949_1, the sheet was parsed with validation, and the
\* validation has no warning
C15_Witness ==
  /\ pc = "returned" /\ call.op = "parse"
  /\ call.sheetName = <<"f","8","9","4","9">>
  /\ call.options.validate
  /\ Len(call.rows) = 1
  /\ result.formIds = <<<<"f","8","9","4","9","_","1">>>>
  /\ ObjGet(result.formsData[1][2],
            CellKey(getF8949Mapping(call.options.year), <<"l","t">>, 0, 3)) = Num(-50)
  /\ result.validation.isValid
  /\ result.validation.warnings = <<>>

\* C16: on a 1040 sheet whose first record has a key that is, in lower
\* case, 'variable' or 'value', and at least two keys, every record from
\* the first on is a data row read by position, the variable from the
\* first key and the value from the second: the field map is the one of
\* the two-column extraction over all records, it holds the value of every
\* record before the first empty variable whose variable is mapped and
\* whose value is not empty (the last such value of a field), and no field
\* beside these.
C16_NamedKeysMeanHeaderless ==
  (/\ pc = "returned" /\ call.op = "parse"
   /\ toLowerCase(call.sheetName) \in {<<"f","1","0","4","0">>, <<"1","0","4","0">>}
   /\ Len(call.rows) > 0
   /\ Len(call.rows[1]) >= 2
   /\ \E c \in 1..Len(call.rows[1]) :
        toLowerCase(call.rows[1][c][1]) \in {<<"v","a","r","i","a","b","l","e">>, <<"v","a","l","u","e">>}) =>
    LET mapping == getF1040Mapping(call.options.year)
        rows == call.rows
        fields == result.formsData[1][2]
        Variable(j) == rows[j][1][2]
        Value(j) == rows[j][2][2]
        Field(j) == PropertyKey(MappingGet(mapping, StringOf(Variable(j))))
        Gives(j) == /\ \A e \in 1..j : ~isEmpty(Variable(e))
                    /\ Truthy(MappingGet(mapping, StringOf(Variable(j))))
                    /\ ~isEmpty(Value(j))
        LastOf(field) == SetMax({j \in 1..Len(rows) : Gives(j) /\ Field(j) = field})
    IN /\ result.formIds = <<<<"f","1","0","4","0">>>>
       /\ fields = parseSimpleFormat(rows, mapping, <<>>)
       /\ \A j \in 1..Len(rows) :
            Gives(j) => ObjGet(fields, Field(j)) = Value(LastOf(Field(j)))
       /\ \A k \in 1..Len(fields) :
            \E j \in 1..Len(rows) : Gives(j) /\ Field(j) = fields[k][1]

\* C16, witness: under the keys VALUE and variable, in this order, the only
\* record holds 'Line 1a' and '5000'; it was read as data, the variable
\* from the first key: the field of Line 1a holds '5000'
C16_Witness ==
  /\ pc = "returned" /\ call.op = "parse"
  /\ call.sheetName = <<"f","1","0","4","0">>
  /\ call.rows = << << <<<<"V","A","L","U","E">>, Str(<<"L","i","n","e"," ","1","a">>)>>, <<<<"v","a","r","i","a","b","l","e">>, Str(<<"5","0","0","0">>)>> >> >>
  /\ result.formIds = <<<<"f","1","0","4","0">>>>
  /\ result.formsData
       = << <<<<"f","1","0","4","0">>, << <<<<"t","o","p","m","o","s","t","S","u","b","f","o","r","m","[","0","]",".","P","a","g","e","1","[","0","]",".","f","1","_","4","7","[","0","]">>, Str(<<"5","0","0","0">>)>> >> >> >>

\* C17: whatever processExcelFile, clear and setTaxYear operations have
\* run, the stored formsData are the forms parseFile gives for the file and
\* the options of the processExcelFile call that ran to its end last since
\* the last clear, and they are empty when there is no such call.
C17_StoredFormsAreLastFile ==
  app_formsData =
    IF history = <<>> THEN <<>>
    ELSE LET last == history[Len(history)]
         IN parseFile(Workbook(last.file), [year |-> last.year, validate |-> last.validate,
                                  skipEmptyRows |-> TRUE]).formsData

\* C17, witness: the file with a 1040 sheet alone was processed last, when
\* the forms of the file with an 8949 and a 1040 sheet were stored; the
\* stored forms are the one form of the last file, no 8949 form is left
C17_Witness ==
  /\ Len(history) = 1
  /\ history[1].file = "wages.xlsx"
  /\ history[1].replaced = <<<<"f","8","9","4","9","_","1">>, <<"f","1","0","4","0">>>>
  /\ ObjKeys(app_formsData) = <<<<"f","1","0","4","0">>>>
  /\ app_formsData[1][2] = << <<<<"t","o","p","m","o","s","t","S","u","b","f","o","r","m","[","0","]",".","P","a","g","e","1","[","0","]",".","f","1","_","4","8","[","0","]">>, Str(<<"7","0">>)>> >>
  /\ Len(pending) = 1


\* C18: on an 8949 sheet whose columns are detected, the k-th transaction
\* (from 0, in record order) of a class is described by row k mod 14 of
\* that class's table in the instance f8949_(k div 14 + 1), with its own
\* dates, amounts and gain; the result has exactly as many instances as the
\* larger class needs, and a row of a class's table is filled only if a
\* transaction of the class belongs there, so every transaction has one
\* row of one instance and none is lost, duplicated or moved.
C18_TransactionPlacement ==
  (/\ pc = "returned" /\ call.op = "parse"
   /\ F8949Parser_canParse(call.sheetName)
   /\ Len(call.rows) > 0
   /\ detectColumns(call.rows[1]).ok) =>
    LET transactions == parseTransactions(call.rows)
        mapping == getF8949Mapping(call.options.year)
        Class(typePrefix) ==
          IF typePrefix = <<"s","t">>
            THEN SelectSeq(transactions, LAMBDA t : t.isShortTerm)
            ELSE SelectSeq(transactions, LAMBDA t : ~t.isShortTerm)
        Needed(n) == (n + 13) \div 14
        count == IF Needed(Len(Class(<<"s","t">>))) > Needed(Len(Class(<<"l","t">>)))
                   THEN Needed(Len(Class(<<"s","t">>))) ELSE Needed(Len(Class(<<"l","t">>)))
        InstanceId(c) == <<"f","8","9","4","9","_">> \o NumberToString(c)
        Cell(c, typePrefix, idx, col) ==
          ObjGet(ObjGet(result.formsData, InstanceId(c)),
                 CellKey(mapping, typePrefix, idx, col))
    IN /\ ObjKeys(result.formsData) = AsSeq([c \in 1..count |-> InstanceId(c)])
       /\ \A typePrefix \in {<<"s","t">>, <<"l","t">>} :
            LET class == Class(typePrefix)
            IN /\ \A k \in 0..(Len(class) - 1) :
                    LET t == class[k + 1]
                        c == (k \div 14) + 1
                        idx == k % 14
                    IN /\ Cell(c, typePrefix, idx, 0)
                            = Str(NumberToString(t.quantity) \o <<" ","s","h","."," ">> \o t.name)
                       /\ Cell(c, typePrefix, idx, 1) = Str(t.purchaseDate)
                       /\ Cell(c, typePrefix, idx, 2) = Str(t.sellDate)
                       /\ Cell(c, typePrefix, idx, 3) = Num(t.sellPrice)
                       /\ Cell(c, typePrefix, idx, 4) = Num(t.purchasePrice)
                       /\ Cell(c, typePrefix, idx, 6) = Num(t.adjustment)
                       /\ Cell(c, typePrefix, idx, 7)
                            = Num(t.sellPrice - t.purchasePrice - t.adjustment)
               /\ \A c \in 1..count : \A idx \in 0..13 :
                    (14 * (c - 1) + idx >= Len(class)) =>
                      \A col \in 0..7 :
                        ~ObjHas(ObjGet(result.formsData, InstanceId(c)),
                                CellKey(mapping, typePrefix, idx, col))

\* C18, witness: a ledger of 29 records, every third held long: its 20
\* short-term transactions fill the short-term table of the first instance
\* and six rows of the second, its 9 long-term ones nine rows of the first
\* instance's long-term table; the 15th short-term transaction, T21, is in
\* row 0 of the second instance
C18_Witness ==
  /\ pc = "returned" /\ call.op = "parse"
  /\ F8949Parser_canParse(call.sheetName)
  /\ Len(call.rows) = 29
  /\ detectColumns(call.rows[1]).ok
  /\ ObjKeys(result.formsData) = <<<<"f","8","9","4","9","_","1">>, <<"f","8","9","4","9","_","2">>>>
  /\ LET mapping == getF8949Mapping(call.options.year)
     IN /\ ObjGet(ObjGet(result.formsData, <<"f","8","9","4","9","_","2">>), CellKey(mapping, <<"s","t">>, 0, 0))
             = Str(<<"2","2"," ","s","h","."," ","T","2","1">>)
        /\ ObjGet(ObjGet(result.formsData, <<"f","8","9","4","9","_","1">>), CellKey(mapping, <<"l","t">>, 8, 0))
             = Str(<<"2","7"," ","s","h","."," ","T","2","6">>)
        /\ ~ObjHas(ObjGet(result.formsData, <<"f","8","9","4","9","_","2">>), CellKey(mapping, <<"l","t">>, 0, 0))
        /\ ~ObjHas(ObjGet(result.formsData, <<"f","8","9","4","9","_","2">>), CellKey(mapping, <<"s","t">>, 6, 0))

\* C19: in the field map of every chunk of m transactions, 1 <= m <= 14,
\* each position i < m has the mapped identifiers of its cells c0, c1, c2,
\* c3, c4, c6 and c7, and that of c5 exactly when the transaction at i has
\* a code that is not empty; no position i >= m has the identifier of any
\* of its eight cells.
C19_ChunkRowCells ==
  (pc = "returned" /\ call.op = "chunkTransactions") =>
    LET n == Len(call.transactions)
        mapping == getF8949Mapping(call.year)
        Key(i, col) == CellKey(mapping, call.typePrefix, i, col)
    IN \A c \in 1..Len(result) :
         LET m == IF 14 * c <= n THEN 14 ELSE n - 14 * (c - 1)
         IN /\ m \in 1..14
            /\ \A i \in 0..13 :
                 IF i < m
                   THEN /\ \A col \in {0, 1, 2, 3, 4, 6, 7} : ObjHas(result[c], Key(i, col))
                        /\ ObjHas(result[c], Key(i, 5))
                             <=> (call.transactions[14 * (c - 1) + i + 1].code # <<>>)
                   ELSE \A col \in 0..7 : ~ObjHas(result[c], Key(i, col))

\* C19, witness: a last chunk of 6 transactions, the first of them with
\* the code W and the second without a code: row 0 has its c5, row 1 has
\* not, and row 6 has no cell
C19_Witness ==
  /\ pc = "returned" /\ call.op = "chunkTransactions"
  /\ Len(call.transactions) = 20
  /\ Len(result) = 2
  /\ call.transactions[15].code = <<"W">>
  /\ call.transactions[16].code = <<>>
  /\ LET mapping == getF8949Mapping(call.year)
         Key(i, col) == CellKey(mapping, call.typePrefix, i, col)
     IN /\ ObjGet(result[2], Key(0, 5)) = Str(<<"W">>)
        /\ ~ObjHas(result[2], Key(1, 5))
        /\ ObjHas(result[2], Key(1, 6))
        /\ \A col \in 0..7 : ~ObjHas(result[2], Key(6, col))

\* C20: on an 8949 sheet with records, every role that has a matching
\* header (one whose lower-cased trimmed text contains, or is contained in,
\* a synonym of the role) is resolved to the first such header in the key
\* order of the first record, also when later headers match as well, and a
\* role without a matching header is not resolved; the role map of a
\* detected sheet holds exactly these resolutions.
C20_FirstMatchingHeaderWins ==
  (/\ pc = "returned" /\ call.op = "parse"
   /\ F8949Parser_canParse(call.sheetName)
   /\ Len(call.rows) > 0) =>
    LET firstRow == call.rows[1]
        headers == ObjKeys(firstRow)
        Matches(h, role) ==
          \E p \in 1..Len(EXPECTED_HEADERS(role)) :
            LET text == trim(toLowerCase(headers[h]))
                synonym == EXPECTED_HEADERS(role)[p]
            IN includes(text, synonym) \/ includes(synonym, text)
        Matching(role) == {h \in 1..Len(headers) : Matches(h, role)}
        First(role) == CHOOSE h \in Matching(role) : \A g \in Matching(role) : h <= g
        Resolved(role) ==
          ColumnEntry(role, FindColumn(firstRow, NormalizedHeaders(firstRow), role))
        detected == detectColumns(firstRow)
    IN \A role \in {"quantity", "name", "purchaseDate", "sellDate",
                    "purchasePrice", "sellPrice", "code", "adjustment"} :
         IF Matching(role) # {}
           THEN /\ DOMAIN Resolved(role) = {role}
                /\ Resolved(role)[role] = headers[First(role)]
                /\ detected.ok =>
                     /\ role \in DOMAIN detected.columnMap
                     /\ detected.columnMap[role] = headers[First(role)]
           ELSE /\ DOMAIN Resolved(role) = {}
                /\ detected.ok => role \notin DOMAIN detected.columnMap

\* C20, the case that fails: the first header of the sheet is the empty
\* text, which every synonym contains, so it is the first matching header
\* of the role quantity, before the header Quantity; the role was left
\* unresolved and the sheet rejected
C20_Witness ==
  /\ pc = "returned" /\ call.op = "parse"
  /\ call.sheetName = <<"8","9","4","9">>
  /\ Len(call.rows) = 1
  /\ ObjKeys(call.rows[1])[1] = <<>>
  /\ ObjKeys(call.rows[1])[2] = <<"Q","u","a","n","t","i","t","y">>
  /\ FindColumn(call.rows[1], NormalizedHeaders(call.rows[1]), "quantity")
       = [found |-> TRUE, col |-> <<>>]
  /\ ColumnEntry("quantity",
       FindColumn(call.rows[1], NormalizedHeaders(call.rows[1]), "quantity")) = <<>>
  /\ result.formIds = <<>>
  /\ result.validation.errors[1].message = <<"N","o"," ","v","a","l","i","d"," ","t","r","a","n","s","a","c","t","i","o","n","s"," ","f","o","u","n","d">>

\* C21: on an 8949 sheet whose columns are detected, a record with a
\* quantity whose two date cells both convert to dates has, in cells c1 and
\* c2 of its row, the month, day and year (MM/DD/YYYY) of the very dates
\* its holding period was computed from, whether the cell is a day-count
\* serial or a text.
C21_DateCellsFormatted ==
  (/\ pc = "returned" /\ call.op = "parse"
   /\ F8949Parser_canParse(call.sheetName)
   /\ Len(call.rows) > 0
   /\ detectColumns(call.rows[1]).ok) =>
    LET columnMap == detectColumns(call.rows[1]).columnMap
        mapping == getF8949Mapping(call.options.year)
        Purchased(row) == parseDate(RowCell(row, columnMap, "purchaseDate"))
        Sold(row) == parseDate(RowCell(row, columnMap, "sellDate"))
        kept == SelectSeq(call.rows, LAMBDA row : ~isEmpty(RowCell(row, columnMap, "quantity")))
        Short(row) ==
          Purchased(row).valid /\ Sold(row).valid
            /\ Sold(row).time - Purchased(row).time < 365 * 24 * 60 * 60
        Class(typePrefix) ==
          IF typePrefix = <<"s","t">> THEN SelectSeq(kept, Short)
          ELSE SelectSeq(kept, LAMBDA row : ~Short(row))
        MonthDayYear(date) ==
          LET c == CivilFromDays(date.time \div 86400)
          IN Str((IF c.m < 10 THEN <<"0">> ELSE <<>>) \o NumberToString(c.m) \o <<"/">>
                 \o (IF c.d < 10 THEN <<"0">> ELSE <<>>) \o NumberToString(c.d) \o <<"/">>
                 \o NumberToString(c.y))
        Cell(k, typePrefix, col) ==
          ObjGet(ObjGet(result.formsData, <<"f","8","9","4","9","_">> \o NumberToString((k \div 14) + 1)),
                 CellKey(mapping, typePrefix, k % 14, col))
    IN \A typePrefix \in {<<"s","t">>, <<"l","t">>} :
         \A k \in 0..(Len(Class(typePrefix)) - 1) :
           LET row == Class(typePrefix)[k + 1]
           IN (Purchased(row).valid /\ Sold(row).valid) =>
                /\ Cell(k, typePrefix, 1) = MonthDayYear(Purchased(row))
                /\ Cell(k, typePrefix, 2) = MonthDayYear(Sold(row))

\* C21, the case that fails: one record whose dates are the texts
\* 2024-01-01 and 2024-12-30, held 364 days and so short-term; the cells c1
\* and c2 of its row hold the texts as they were given
C21_Witness ==
  /\ pc = "returned" /\ call.op = "parse"
  /\ call.sheetName = <<"f","8","9","4","9">>
  /\ Len(call.rows) = 1
  /\ detectColumns(call.rows[1]).ok
  /\ ObjGet(call.rows[1], <<"P","u","r","c","h","a","s","e"," ","D","a","t","e">>) = Str(<<"2","0","2","4","-","0","1","-","0","1">>)
  /\ ObjGet(call.rows[1], <<"S","e","l","l"," ","D","a","t","e">>) = Str(<<"2","0","2","4","-","1","2","-","3","0">>)
  /\ result.formIds = <<<<"f","8","9","4","9","_","1">>>>
  /\ LET mapping == getF8949Mapping(call.options.year)
     IN /\ ObjGet(result.formsData[1][2], CellKey(mapping, <<"s","t">>, 0, 1)) = Str(<<"2","0","2","4","-","0","1","-","0","1">>)
        /\ ObjGet(result.formsData[1][2], CellKey(mapping, <<"s","t">>, 0, 2)) = Str(<<"2","0","2","4","-","1","2","-","3","0">>)

\* C22: whatever the tax year of the call, the table the 8949 parser uses
\* has an entry for each of the 224 cell keys {st,lt}_r{0..13}_c{0..7} and
\* of the 8 total keys, and no two of these keys have the same identifier;
\* so no instance has the key undefined, and every instance has as many
\* fields as were assigned to it: per class with m > 0 rows in it, 7 m
\* cells, one more for each code, and 4 totals.
C22_MappingCompleteAndInjective ==
  (/\ pc = "returned" /\ call.op = "parse"
   /\ F8949Parser_canParse(call.sheetName)
   /\ Len(call.rows) > 0
   /\ detectColumns(call.rows[1]).ok) =>
    LET mapping == getF8949Mapping(call.options.year)
        logicalKeys ==
          {typePrefix \o <<"_","r">> \o NumberToString(i) \o <<"_","c">> \o NumberToString(j) :
             typePrefix \in {<<"s","t">>, <<"l","t">>}, i \in 0..13, j \in 0..7}
          \cup {typePrefix \o <<"_","t","o","t","a","l","_">> \o which :
                  typePrefix \in {<<"s","t">>, <<"l","t">>},
                  which \in {<<"p","r","o","c","e","e","d">>, <<"c","o","s","t">>, <<"a","d","j">>, <<"g","l">>}}
        transactions == parseTransactions(call.rows)
        Class(typePrefix) ==
          IF typePrefix = <<"s","t">>
            THEN SelectSeq(transactions, LAMBDA t : t.isShortTerm)
            ELSE SelectSeq(transactions, LAMBDA t : ~t.isShortTerm)
        InChunk(typePrefix, c) ==
          {k \in 1..Len(Class(typePrefix)) : (k - 1) \div 14 = c - 1}
        Assigned(typePrefix, c) ==
          IF InChunk(typePrefix, c) = {} THEN 0
          ELSE 7 * Cardinality(InChunk(typePrefix, c)) + 4
               + Cardinality({k \in InChunk(typePrefix, c) : Class(typePrefix)[k].code # <<>>})
    IN /\ Cardinality(logicalKeys) = 232
       /\ logicalKeys \subseteq DOMAIN mapping
       /\ \A key \in logicalKeys : mapping[key].t = "string"
       /\ Cardinality({mapping[key] : key \in logicalKeys}) = 232
       /\ \A c \in 1..Len(result.formsData) :
            /\ ~ObjHas(result.formsData[c][2], <<"u","n","d","e","f","i","n","e","d">>)
            /\ Len(result.formsData[c][2]) = Assigned(<<"s","t">>, c) + Assigned(<<"l","t">>, c)

\* C22, witness: a call for the year 2024, which has no table of its own:
\* the one record of the sheet gave an instance of 7 cells and 4 totals
\* under the identifiers of the 2025 table
C22_Witness ==
  /\ pc = "returned" /\ call.op = "parse"
  /\ call.sheetName = <<"f","8","9","4","9">>
  /\ call.options.year = 2024
  /\ Len(call.rows) = 1
  /\ result.formIds = <<<<"f","8","9","4","9","_","1">>>>
  /\ Len(result.formsData[1][2]) = 11
  /\ ObjHas(result.formsData[1][2], <<"t","o","p","m","o","s","t","S","u","b","f","o","r","m","[","0","]",".","P","a","g","e","1","[","0","]",".","T","a","b","l","e","_","L","i","n","e","1","_","P","a","r","t","1","[","0","]",".","R","o","w","1","[","0","]",".","f","1","_","0","3","[","0","]">>)
  /\ ObjHas(result.formsData[1][2], <<"t","o","p","m","o","s","t","S","u","b","f","o","r","m","[","0","]",".","P","a","g","e","1","[","0","]",".","f","1","_","9","1","[","0","]">>)

\* C23: on a 1040 sheet, the variable of a record is the cell of the column
\* named variable where the sheet has one and the first cell otherwise,
\* its value the cell of the column named value or the second cell; every
\* record before the first record without a variable, whose variable is in
\* the mapping table and whose value is not empty, has its identifier in
\* the f1040 field map, with the value of the last such record of that
\* variable (unless a record after the gap names the variable again); the
\* first record of the sheet is such a record when it is a data row.
C23_RecordsContribute ==
  (/\ pc = "returned" /\ call.op = "parse"
   /\ F1040Parser_canParse(call.sheetName)
   /\ Len(call.rows) > 0) =>
    LET rows == call.rows
        mapping == getF1040Mapping(call.options.year)
        keys == ObjKeys(rows[1])
        Named(word, position) ==
          IF \E i \in 1..Len(keys) : includes(toLowerCase(keys[i]), word)
            THEN keys[CHOOSE i \in 1..Len(keys) :
                        /\ includes(toLowerCase(keys[i]), word)
                        /\ \A j \in 1..(i - 1) : ~includes(toLowerCase(keys[j]), word)]
          ELSE IF position <= Len(keys) THEN keys[position] ELSE <<"u","n","d","e","f","i","n","e","d">>
        Variable(i) == ObjGet(rows[i], Named(<<"v","a","r","i","a","b","l","e">>, 1))
        Value(i) == ObjGet(rows[i], Named(<<"v","a","l","u","e">>, 2))
        gaps == {i \in 1..Len(rows) : isEmpty(Variable(i))}
        gap == IF gaps = {} THEN Len(rows) + 1
               ELSE CHOOSE i \in gaps : \A j \in gaps : i <= j
        Contributes(i) ==
          /\ ~isEmpty(Variable(i))
          /\ StringOf(Variable(i)) \in DOMAIN mapping
          /\ ~isEmpty(Value(i))
        fields == ObjGet(result.formsData, <<"f","1","0","4","0">>)
    IN /\ result.formIds = <<<<"f","1","0","4","0">>>>
       /\ \A i \in 1..(gap - 1) :
            Contributes(i) =>
              LET id == mapping[StringOf(Variable(i))].s
                  same == {j \in 1..Len(rows) :
                             Contributes(j) /\ Variable(j) = Variable(i)}
                  last == CHOOSE j \in same : \A h \in same : h <= j
              IN /\ ObjHas(fields, id)
                 /\ last < gap => ObjGet(fields, id) = Value(last)

\* C23, the case that fails: a sheet with the columns Variable Name and
\* Value Amount whose one record is Line 1a with the value 5000; the record
\* is a data row, is taken for a header row and left out of the field map
C23_Witness ==
  /\ pc = "returned" /\ call.op = "parse"
  /\ call.sheetName = <<"f","1","0","4","0">>
  /\ Len(call.rows) = 1
  /\ call.rows[1] = << <<<<"V","a","r","i","a","b","l","e"," ","N","a","m","e">>, Str(<<"L","i","n","e"," ","1","a">>)>>,
                       <<<<"V","a","l","u","e"," ","A","m","o","u","n","t">>, Str(<<"5","0","0","0">>)>> >>
  /\ looksLikeHeader(call.rows[1])
  /\ result.formIds = <<<<"f","1","0","4","0">>>>
  /\ ObjGet(result.formsData, <<"f","1","0","4","0">>) = <<>>

\* C24: in the result of parseFile, the forms are those that some sheet of
\* the workbook gave, and each is, whole, the field map that the last sheet
\* giving a form of that id gave: nothing of an earlier sheet's form of the
\* same id is left, and a form that only an earlier sheet gave is kept.
C24_LastSheetReplacesInstance ==
  (pc = "returned" /\ call.op = "parseFile" /\ ~call.file.corrupt) =>
    LET sheets == call.file.sheets
        options == DefaultOptions(call.options)
        forms ==
          AsSeq([i \in 1..Len(sheets) |->
                   IF sheets[i].readFails \/ Len(sheets[i].rows) = 0 THEN <<>>
                   ELSE ParserRegistry_parse(sheets[i].name, sheets[i].rows, options).formsData])
        Forms(i) == forms[i]
        Gives(i, id) == ObjHas(Forms(i), id)
        ids == UNION {{Forms(i)[f][1] : f \in 1..Len(Forms(i))} : i \in 1..Len(sheets)}
    IN /\ {result.formsData[f][1] : f \in 1..Len(result.formsData)} = ids
       /\ \A f, g \in 1..Len(result.formsData) :
            f # g => result.formsData[f][1] # result.formsData[g][1]
       /\ \A id \in ids :
            LET last == CHOOSE i \in 1..Len(sheets) :
                          Gives(i, id) /\ \A j \in (i + 1)..Len(sheets) : ~Gives(j, id)
            IN ObjGet(result.formsData, id) = ObjGet(Forms(last), id)

\* C24, witness: a workbook whose sheet 8949 has fifteen records with a
\* code and whose sheet f8949 has one record without: f8949_1 is the form
\* of the second sheet alone, without the code cell of the first sheet's
\* first record, and f8949_2 is still there
C24_Witness ==
  /\ pc = "returned" /\ call.op = "parseFile"
  /\ Len(call.file.sheets) = 2
  /\ call.file.sheets[1].name = <<"8","9","4","9">> /\ Len(call.file.sheets[1].rows) = 15
  /\ call.file.sheets[2].name = <<"f","8","9","4","9">> /\ Len(call.file.sheets[2].rows) = 1
  /\ ObjKeys(result.formsData) = <<<<"f","8","9","4","9","_","1">>, <<"f","8","9","4","9","_","2">>>>
  /\ LET mapping == getF8949Mapping(DefaultOptions(call.options).year)
     IN /\ ObjGet(ObjGet(result.formsData, <<"f","8","9","4","9","_","1">>), CellKey(mapping, <<"s","t">>, 0, 0))
             = Str(<<"1","0"," ","s","h","."," ","A","C","M","E">>)
        /\ ~ObjHas(ObjGet(result.formsData, <<"f","8","9","4","9","_","1">>), CellKey(mapping, <<"s","t">>, 0, 5))
        /\ ~ObjHas(ObjGet(result.formsData, <<"f","8","9","4","9","_","1">>), CellKey(mapping, <<"s","t">>, 1, 0))
        /\ ObjGet(ObjGet(result.formsData, <<"f","8","9","4","9","_","2">>), CellKey(mapping, <<"s","t">>, 0, 0))
             = Str(<<"1","0"," ","s","h","."," ","T","1","5">>)

\* C25: in the page, whenever the download button is enabled the
\* application has forms, and no click on the button has raised the error
\* of having no forms data.
C25_EnabledButtonHasForms ==
  /\ ~downloadDisabled => Len(app_formsData) > 0
  /\ clickError = "none"

\* C25, the case that fails: after an upload and a click the year was
\* changed while the download or its timer was under way; the button came
\* back enabled without forms, and the next click raised the error
C25_Witness ==
  /\ ~downloadDisabled
  /\ app_formsData = <<>>
  /\ pending = <<>>
  /\ downloads = 0
  /\ timers = 0
  /\ clickError = "No forms data available"

\* C26: in the result of parseFile and in the result the dispatcher gives
\* for each of the workbook's sheets that is handed to it, the validation
\* is valid exactly when it has no errors, whatever its warnings; every
\* error has the severity error and every warning the severity warning.
C26_ValidIffNoErrors ==
  (pc = "returned" /\ call.op = "parseFile" /\ ~call.file.corrupt) =>
    LET sheets == call.file.sheets
        options == DefaultOptions(call.options)
        WellFormed(validation) ==
          /\ validation.isValid <=> (Len(validation.errors) = 0)
          /\ \A e \in 1..Len(validation.errors) : validation.errors[e].severity = "error"
          /\ \A w \in 1..Len(validation.warnings) :
               validation.warnings[w].severity = "warning"
    IN /\ WellFormed(result.validation)
       /\ \A i \in 1..Len(sheets) :
            (~sheets[i].readFails /\ Len(sheets[i].rows) > 0) =>
              WellFormed(ParserRegistry_parse(sheets[i].name, sheets[i].rows,
                                              options).validation)

\* C26, witness: a workbook of an 8949 sheet and a 1040 sheet, parsed with
\* validation: no error, the one warning of the 1040 validator, and valid
C26_Witness ==
  /\ pc = "returned" /\ call.op = "parseFile"
  /\ DefaultOptions(call.options).validate
  /\ Len(call.file.sheets) = 2
  /\ call.file.sheets[1].name = <<"f","8","9","4","9">>
  /\ call.file.sheets[2].name = <<"f","1","0","4","0">>
  /\ result.validation.isValid
  /\ result.validation.errors = <<>>
  /\ Len(result.validation.warnings) = 1
  /\ result.validation.warnings[1].severity = "warning"
  /\ result.validation.warnings[1].message = <<"R","e","q","u","i","r","e","d"," ","f","i","e","l","d"," ","i","s"," ","e","m","p","t","y">>

\* C27: when the columns of an 8949 sheet are detected, no two of the
\* resolved roles have the same header.
C27_RolesHaveDistinctHeaders ==
  (/\ pc = "returned" /\ call.op = "parse"
   /\ F8949Parser_canParse(call.sheetName)
   /\ Len(call.rows) > 0
   /\ detectColumns(call.rows[1]).ok) =>
    LET columnMap == detectColumns(call.rows[1]).columnMap
    IN \A role, other \in DOMAIN columnMap :
         role # other => columnMap[role] # columnMap[other]

\* C27, the case that fails: a sheet with the headers Date and Date Sold:
\* both date roles were resolved to Date, and the row of the record shows
\* the date of the column Date as the date sold
C27_Witness ==
  /\ pc = "returned" /\ call.op = "parse"
  /\ call.sheetName = <<"f","8","9","4","9">>
  /\ Len(call.rows) = 1
  /\ detectColumns(call.rows[1]).ok
  /\ detectColumns(call.rows[1]).columnMap["purchaseDate"] = <<"D","a","t","e">>
  /\ detectColumns(call.rows[1]).columnMap["sellDate"] = <<"D","a","t","e">>
  /\ ObjGet(call.rows[1], <<"D","a","t","e">>) = Str(<<"2","0","2","4","-","0","1","-","0","1">>)
  /\ ObjGet(call.rows[1], <<"D","a","t","e"," ","S","o","l","d">>) = Str(<<"2","0","2","4","-","1","2","-","3","0">>)
  /\ result.formIds = <<<<"f","8","9","4","9","_","1">>>>
  /\ LET mapping == getF8949Mapping(call.options.year)
     IN ObjGet(result.formsData[1][2], CellKey(mapping, <<"s","t">>, 0, 2)) = Str(<<"2","0","2","4","-","0","1","-","0","1">>)

\* C28: when a 1040 sheet parsed with validation gives a field map that is
\* not empty: if the map has a value for the field Line 1a is mapped to,
\* the validation has no warning of an empty required field; if it has
\* none, the validation has exactly one such warning and no error.
C28_RequiredFieldIsWages ==
  (/\ pc = "returned" /\ call.op = "parse"
   /\ F1040Parser_canParse(call.sheetName)
   /\ Len(call.rows) > 0
   /\ call.options.validate
   /\ ObjHas(result.formsData, <<"f","1","0","4","0">>)
   /\ Len(ObjGet(result.formsData, <<"f","1","0","4","0">>)) > 0) =>
    LET fields == ObjGet(result.formsData, <<"f","1","0","4","0">>)
        wages == getF1040Mapping(call.options.year)[<<"L","i","n","e"," ","1","a">>].s
        empties == {w \in 1..Len(result.validation.warnings) :
                      result.validation.warnings[w].message = <<"R","e","q","u","i","r","e","d"," ","f","i","e","l","d"," ","i","s"," ","e","m","p","t","y">>}
    IN IF ObjHas(fields, wages) /\ ~isEmpty(ObjGet(fields, wages))
         THEN empties = {}
         ELSE /\ Cardinality(empties) = 1
              /\ result.validation.errors = <<>>

\* C28, the case that fails: a sheet whose one record is Line 1a with the
\* value 5000, parsed with validation: the field of Line 1a has the value,
\* and the validation warns that the required field f1_32 is empty
C28_Witness ==
  /\ pc = "returned" /\ call.op = "parse"
  /\ call.sheetName = <<"f","1","0","4","0">>
  /\ call.options.validate
  /\ call.rows = << << <<<<"V","a","r","i","a","b","l","e">>, Str(<<"L","i","n","e"," ","1","a">>)>>, <<<<"V","a","l","u","e">>, Str(<<"5","0","0","0">>)>> >> >>
  /\ ObjGet(result.formsData, <<"f","1","0","4","0">>)
       = << <<<<"t","o","p","m","o","s","t","S","u","b","f","o","r","m","[","0","]",".","P","a","g","e","1","[","0","]",".","f","1","_","4","7","[","0","]">>, Str(<<"5","0","0","0">>)>> >>
  /\ result.validation.isValid
  /\ Len(result.validation.warnings) = 1
  /\ result.validation.warnings[1].field = <<"t","o","p","m","o","s","t","S","u","b","f","o","r","m","[","0","]",".","P","a","g","e","1","[","0","]",".","f","1","_","3","2","[","0","]">>
  /\ result.validation.warnings[1].message = <<"R","e","q","u","i","r","e","d"," ","f","i","e","l","d"," ","i","s"," ","e","m","p","t","y">>
====
